---------------------------- MODULE Spec2Model ----------------------------
(***************************************************************************)
(* A model of the logic-tree computation engine of taxfix_musr            *)
(* (src/src/taxfix_musr/logic_tree.py) together with the case builder     *)
(* (src/src/taxfix_musr/schema_generator.py) that feeds it.               *)
(*                                                                         *)
(* Python values are tagged records [t, n, d, s]:                          *)
(*   t = "none"                      None                                  *)
(*   t = "int",   value n            an int (d = 1)                        *)
(*   t = "float", value n / d        a float, kept as an exact fraction in *)
(*                                   lowest terms (binary rounding of      *)
(*                                   IEEE doubles is not modelled)         *)
(*   t = "bool",  n in {0, 1}        False / True                          *)
(*   t = "str",   s                  a string                              *)
(* The result of an evaluation is [ok, val, exc, msg, arg]: a value, or    *)
(* the exception raised (its class, its message, the name it mentions).    *)
(***************************************************************************)
EXTENDS Integers, Sequences, FiniteSets, TLC

VARIABLES
    case,             \* the Case the LogicTree was constructed with
    computed_values,  \* LogicTree.computed_values (one dict per object)
    pc,               \* "ready" | "sort" | "eval" | "done" | "failed"
    visited,          \* _topological_sort: local set visited
    temp_visited,     \* _topological_sort: local set temp_visited
    result,           \* _topological_sort: local list result
    stack,            \* the active visit() calls: <<[node_id, next dep index]>>
    loop,             \* position of `for node_id in self.case.nodes`
    steps,            \* steps the running _topological_sort has taken so far
    ordered_nodes,    \* compute(): ordered_nodes
    idx,              \* position of `for node_id in ordered_nodes`
    outcome,          \* how the latest finished compute() call ended
    prev,             \* what outcome was when the latest compute() call began
    alias,            \* TRUE iff the dict returned last is this object's dict
    eval_expression,  \* _safe_eval called on its own: its expression,
    eval_context,     \*   its context,
    eval_result,      \*   and how the call ended
    eval_via,         \* "_safe_eval", or the kind of the Rule _apply_rule was given
    batch_n,          \* run_batch: its argument n
    batch_i,          \* run_batch: the iterations of `for i in range(n)` begun
    batch_pc,         \* "idle" | "loop" | "returned" | "raised"
    batch_cases,      \* the cases case_generator() has returned, in order
    individual_scores,  \* run_batch: local list individual_scores
    all_failed_checks,  \* run_batch: local list all_failed_checks
    batch_results,    \* what run_batch returned, or the exception that left it
    sc_k,             \* self_consistency: its argument k
    sc_temperature,   \* self_consistency: its argument temperature (in tenths)
    sc_i,             \* self_consistency: the iterations of `for i in range(k)` begun
    sc_pc,            \* "idle" | "loop" | "returned"
    llm_temperature,  \* renderer.llm_client.temperature (in tenths)
    original_temp,    \* self_consistency: local original_temp
    temperature_before,  \* renderer.llm_client.temperature when the call began
    individual_amounts,  \* self_consistency: local list individual_amounts
    sc_scores,        \* self_consistency: local list individual_scores
    sc_results        \* what self_consistency returned, or the exception that left it

treeVars == <<case, computed_values, pc, visited, temp_visited, result, stack,
              loop, steps, ordered_nodes, idx, outcome, prev, alias>>

evalVars == <<eval_expression, eval_context, eval_result, eval_via>>

batchVars == <<batch_n, batch_i, batch_pc, batch_cases, individual_scores,
               all_failed_checks, batch_results>>

scVars == <<sc_k, sc_temperature, sc_i, sc_pc, llm_temperature, original_temp,
            temperature_before, individual_amounts, sc_scores, sc_results>>

suiteVars == <<batchVars, scVars>>

vars == <<treeVars, evalVars, suiteVars>>

-----------------------------------------------------------------------------
(* Python values *)

NoneV == [t |-> "none", n |-> 0, d |-> 1, s |-> ""]

IntV(i) == [t |-> "int", n |-> i, d |-> 1, s |-> ""]

BoolV(b) == [t |-> "bool", n |-> IF b THEN 1 ELSE 0, d |-> 1, s |-> ""]

StrV(x) == [t |-> "str", n |-> 0, d |-> 1, s |-> x]

Abs(i) == IF i < 0 THEN -i ELSE i

RECURSIVE Gcd(_, _)
Gcd(a, b) == IF b = 0 THEN a ELSE Gcd(b, a % b)

\* the float n / d, in lowest terms with a positive denominator
FloatV(n, d) ==
    LET g == Gcd(Abs(n), Abs(d))
        sgn == IF d < 0 THEN -1 ELSE 1
    IN  [t |-> "float", n |-> sgn * (n \div g), d |-> sgn * (d \div g), s |-> ""]

IsNone(v) == v.t = "none"

\* int, float and bool take part in arithmetic (bool is a subclass of int)
IsNumber(v) == v.t \in {"int", "float", "bool"}

IsIntegral(v) == v.t \in {"int", "bool"}

\* the number a / b with Python's result type: float as soon as one operand is
NumberV(n, d, asFloat) == IF asFloat THEN FloatV(n, d) ELSE IntV(n)

AnyFloat(a, b) == a.t = "float" \/ b.t = "float"

\* bool(v)
Truthy(v) ==
    CASE v.t = "none" -> FALSE
      [] v.t = "str"  -> v.s # ""
      [] OTHER        -> v.n # 0

Ok(v) == [ok |-> TRUE, val |-> v, exc |-> "", msg |-> "", arg |-> ""]

Err(e, m, a) == [ok |-> FALSE, val |-> NoneV, exc |-> e, msg |-> m, arg |-> a]

TypeError(m) == Err("TypeError", m, "")

\* a < b, a == b on numbers, by cross-multiplication (denominators are > 0)
NumLt(a, b) == a.n * b.d < b.n * a.d

NumEq(a, b) == a.n * b.d = b.n * a.d

\* the order of the strings the cases use (Python compares code points)
StrOrder == <<"", "abc", "itemized", "standard", "xyz">>

StrRank(x) ==
    IF \E i \in 1..Len(StrOrder) : StrOrder[i] = x
    THEN CHOOSE i \in 1..Len(StrOrder) : StrOrder[i] = x
    ELSE Len(StrOrder) + 1

\* Python's a == b
PyEq(a, b) ==
    CASE IsNumber(a) /\ IsNumber(b) -> NumEq(a, b)
      [] a.t = "str" /\ b.t = "str" -> a.s = b.s
      [] IsNone(a) /\ IsNone(b)     -> TRUE
      [] OTHER                      -> FALSE

\* Python's a < b: a TypeError unless both are numbers or both are strings
PyLt(a, b) ==
    CASE IsNumber(a) /\ IsNumber(b) -> Ok(BoolV(NumLt(a, b)))
      [] a.t = "str" /\ b.t = "str" -> Ok(BoolV(StrRank(a.s) < StrRank(b.s)))
      [] OTHER -> TypeError("'<' not supported between instances")

\* Python's a <= b
PyLe(a, b) ==
    CASE IsNumber(a) /\ IsNumber(b) -> Ok(BoolV(NumLt(a, b) \/ NumEq(a, b)))
      [] a.t = "str" /\ b.t = "str" -> Ok(BoolV(StrRank(a.s) <= StrRank(b.s)))
      [] OTHER -> TypeError("'<=' not supported between instances")

\* Python's a + b
PyAdd(a, b) ==
    CASE IsNumber(a) /\ IsNumber(b) ->
             Ok(NumberV(a.n * b.d + b.n * a.d, a.d * b.d, AnyFloat(a, b)))
      [] a.t = "str" /\ b.t = "str" -> Ok(StrV(a.s \o b.s))
      [] OTHER -> TypeError("unsupported operand type(s) for +")

\* a subtraction with its operands exchanged
PySubSwapped(a, b) ==
    IF IsNumber(a) /\ IsNumber(b)
    THEN Ok(NumberV(b.n * a.d - a.n * b.d, a.d * b.d, AnyFloat(a, b)))
    ELSE TypeError("unsupported operand type(s) for -")

\* Python's a - b
PySub(a, b) ==
    IF IsNumber(a) /\ IsNumber(b)
    THEN Ok(NumberV(a.n * b.d - b.n * a.d, a.d * b.d, AnyFloat(a, b)))
    ELSE TypeError("unsupported operand type(s) for -")

RECURSIVE Repeat(_, _)
Repeat(x, i) == IF i <= 0 THEN "" ELSE x \o Repeat(x, i - 1)

\* Python's a * b (a string times an int repeats the string)
PyMult(a, b) ==
    CASE IsNumber(a) /\ IsNumber(b) ->
             Ok(NumberV(a.n * b.n, a.d * b.d, AnyFloat(a, b)))
      [] a.t = "str" /\ IsIntegral(b) -> Ok(StrV(Repeat(a.s, b.n)))
      [] IsIntegral(a) /\ b.t = "str" -> Ok(StrV(Repeat(b.s, a.n)))
      [] OTHER -> TypeError("can't multiply")

\* Python's a / b for b != 0: true division, always a float
PyTrueDiv(a, b) ==
    IF IsNumber(a) /\ IsNumber(b)
    THEN Ok(FloatV(a.n * b.d, a.d * b.n))
    ELSE TypeError("unsupported operand type(s) for /")

\* a min that returns the larger of the two
PyMinLarger(a, b) ==
    LET c == PyLt(a, b)
    IN  IF ~c.ok THEN c ELSE IF Truthy(c.val) THEN Ok(b) ELSE Ok(a)

\* Python's min(a, b): b if b < a else a
PyMin(a, b) ==
    LET c == PyLt(b, a)
    IN  IF ~c.ok THEN c ELSE IF Truthy(c.val) THEN Ok(b) ELSE Ok(a)

\* a max that returns the smaller of the two
PyMaxSmaller(a, b) ==
    LET c == PyLt(b, a)
    IN  IF ~c.ok THEN c ELSE IF Truthy(c.val) THEN Ok(b) ELSE Ok(a)

\* Python's max(a, b): b if b > a else a
PyMax(a, b) ==
    LET c == PyLt(a, b)
    IN  IF ~c.ok THEN c ELSE IF Truthy(c.val) THEN Ok(b) ELSE Ok(a)

-----------------------------------------------------------------------------
(* Expressions: the ast nodes ast.parse(expression, mode='eval') builds *)

Constant(v) == [k |-> "Constant", value |-> v]

Name(id) == [k |-> "Name", id |-> id]

BinOp(l, op, r) == [k |-> "BinOp", op |-> op, left |-> l, right |-> r]

\* a call with keyword arguments: keywords is <<[arg, value], ...>>
CallKw(f, args, keywords) ==
    [k |-> "Call", func |-> f, args |-> args, keywords |-> keywords]

Call(f, args) == CallKw(f, args, <<>>)

Compare(l, ops, cs) == [k |-> "Compare", left |-> l, ops |-> ops, comparators |-> cs]

IfExp(test, body, orelse) == [k |-> "IfExp", test |-> test, body |-> body, orelse |-> orelse]

Num(i) == Constant(IntV(i))

\* ast nodes _eval_ast has no branch for
UnaryOp(op, operand) == [k |-> "UnaryOp", op |-> op, operand |-> operand]

BoolOp(op, values) == [k |-> "BoolOp", op |-> op, values |-> values]

Attribute(value, attr) == [k |-> "Attribute", value |-> value, attr |-> attr]

Subscript(value, slice) == [k |-> "Subscript", value |-> value, slice |-> slice]

\* formula fields that are not an expression tree
NoFormula == [k |-> "None"]          \* formula=None

EmptyFormula == [k |-> "EmptyString"]  \* formula=""

BadSyntax == [k |-> "SyntaxError"]   \* a string ast.parse rejects

\* `if left is None: left = 0`
NoneToZero(v) == IF IsNone(v) THEN IntV(0) ELSE v

\* a comparison operator applied to two values, uncoerced
CompareOp(op, l, r) ==
    CASE op = "Eq"    -> Ok(BoolV(PyEq(l, r)))
      [] op = "NotEq" -> Ok(BoolV(~PyEq(l, r)))
      [] op = "Lt"    -> PyLt(l, r)
      [] op = "LtE"   -> PyLe(l, r)
      [] op = "Gt"    -> PyLt(r, l)
      [] op = "GtE"   -> PyLe(r, l)
      [] OTHER        -> Err("ValueError", "Unsupported comparison operator", op)

\* a division that leaves a zero divisor to Python's own /
DivUnguarded(l, r) ==
    IF IsNumber(l) /\ IsNumber(r) /\ r.n = 0
    THEN Err("ZeroDivisionError", "division by zero", "")
    ELSE PyTrueDiv(l, r)

\* ast.Div: `if right == 0: raise ValueError("Division by zero")`, then /
Div(l, r) ==
    IF PyEq(r, IntV(0))
    THEN Err("ValueError", "Division by zero", "")
    ELSE PyTrueDiv(l, r)

\* the operator of a BinOp applied to its two (coerced) operands
ArithOp(op, l, r) ==
    CASE op = "Add"  -> PyAdd(l, r)
      [] op = "Sub"  -> PySub(l, r)
      [] op = "Mult" -> PyMult(l, r)
      [] op = "Div"  -> Div(l, r)
      [] OTHER       -> Err("ValueError", "Unsupported operator", op)

\* a ternary that looks only at the branch its condition selects
IfExpSelected(condition, true_value, false_value) ==
    IF ~condition.ok THEN condition
    ELSE IF Truthy(condition.val) THEN true_value ELSE false_value

\* ast.IfExp: condition, true_value and false_value are evaluated in this
\* order, the first one that raises ends the evaluation, then one is returned
IfExpResult(condition, true_value, false_value) ==
    IF ~condition.ok THEN condition
    ELSE IF ~true_value.ok THEN true_value
    ELSE IF ~false_value.ok THEN false_value
    ELSE IF Truthy(condition.val) THEN true_value ELSE false_value

\* operands of a binary operator or of min/max left as they are
CoerceNothing(v) == v

\* the operands of a binary operator or of min/max: None becomes 0
Coerce(v) == NoneToZero(v)

\* operands of a comparison coerced like those of arithmetic
CompareOperandCoerced(v) == NoneToZero(v)

\* the operands of a comparison: taken as they are
CompareOperand(v) == v

\* a lookup like dict.get: a name that is no key gives None
LookupOrNone(id, context) ==
    IF id \in DOMAIN context THEN Ok(context[id]) ELSE Ok(NoneV)

\* ast.Name: `if node.id in context: return context[node.id]`, else raise
Lookup(id, context) ==
    IF id \in DOMAIN context
    THEN Ok(context[id])
    ELSE Err("ValueError", "Undefined variable", id)

\* a call check that lets every function name through
CallCheckAnyName(node) ==
    IF node.func.k # "Name"
    THEN Err("ValueError", "Unsupported function call", "")
    ELSE IF Len(node.args) # 2
    THEN Err("ValueError", "requires exactly 2 arguments", node.func.id)
    ELSE Ok(NoneV)

\* ast.Call: what is raised before any argument is evaluated
CallCheck(node) ==
    IF node.func.k # "Name"
    THEN Err("ValueError", "Unsupported function call", "")
    ELSE IF node.func.id \notin {"min", "max"}
    THEN Err("ValueError", "Unsupported function", node.func.id)
    ELSE IF Len(node.args) # 2
    THEN Err("ValueError", "requires exactly 2 arguments", node.func.id)
    ELSE Ok(NoneV)

RECURSIVE EvalAst(_, _)
EvalAst(node, context) ==
    CASE node.k = "Constant" -> Ok(node.value)
      [] node.k = "Name" -> Lookup(node.id, context)
      [] node.k = "BinOp" ->
            LET left == EvalAst(node.left, context)
            IN  IF ~left.ok THEN left ELSE
                LET right == EvalAst(node.right, context)
                IN  IF ~right.ok THEN right
                    ELSE ArithOp(node.op, Coerce(left.val), Coerce(right.val))
      [] node.k = "Call" ->
            IF ~CallCheck(node).ok THEN CallCheck(node)
            ELSE
                LET left == EvalAst(node.args[1], context)
                IN  IF ~left.ok THEN left ELSE
                    LET right == EvalAst(node.args[2], context)
                    IN  IF ~right.ok THEN right
                        ELSE IF node.func.id = "min"
                        THEN PyMin(Coerce(left.val), Coerce(right.val))
                        ELSE PyMax(Coerce(left.val), Coerce(right.val))
      [] node.k = "Compare" ->
            IF Len(node.ops) # 1 \/ Len(node.comparators) # 1
            THEN Err("ValueError", "Only single comparisons are supported", "")
            ELSE
                LET left == EvalAst(node.left, context)
                IN  IF ~left.ok THEN left ELSE
                    LET right == EvalAst(node.comparators[1], context)
                    IN  IF ~right.ok THEN right
                        ELSE CompareOp(node.ops[1], CompareOperand(left.val),
                                       CompareOperand(right.val))
      [] node.k = "IfExp" ->
            IfExpResult(EvalAst(node.test, context),
                        EvalAst(node.body, context),
                        EvalAst(node.orelse, context))
      [] OTHER -> Err("ValueError", "Unsupported AST node type", node.k)

\* _safe_eval: ast.parse, then _eval_ast on the tree's body
SafeEval(expression, context) ==
    CASE expression.k \in {"SyntaxError", "EmptyString"} ->
             Err("ValueError", "Invalid expression syntax", "")
      [] expression.k = "None" ->
             TypeError("compile() arg 1 must be a string, bytes or AST object")
      [] OTHER -> EvalAst(expression, context)

\* _apply_rule: every kind evaluates the rule's formula
\* rule kinds that are evaluated differently: only a formula rule is
ApplyRuleByKind(rule, context) ==
    IF rule.kind = "formula"
    THEN SafeEval(rule.formula, context)
    ELSE Err("ValueError", "Unsupported rule kind", rule.kind)

\* RuleKind
RuleKinds == {"cap", "threshold", "phaseout", "formula"}

ApplyRule(rule, context) ==
    CASE rule.kind = "cap"      -> SafeEval(rule.formula, context)
      [] rule.kind = "phaseout" -> SafeEval(rule.formula, context)
      [] OTHER                  -> SafeEval(rule.formula, context)

-----------------------------------------------------------------------------
(* The data model (models.py) and the case builder (schema_generator.py).   *)
(* A dict is a function, except Case.nodes, whose iteration order the       *)
(* sorter depends on: it is the sequence of its Nodes in insertion order,   *)
(* each stored under its own node_id.  Fields the engine never reads        *)
(* (case_id, law_refs, description, expected, target_question) are left out.*)

Node(id, type, deps, rule, formula, value) ==
    [node_id |-> id, node_type |-> type, depends_on |-> deps,
     rule_id |-> rule, formula |-> formula, value |-> value]

Rule(id, kind, formula) == [rule_id |-> id, kind |-> kind, formula |-> formula]

Fact(name, value) == [name |-> name, value |-> value]

EmptyMap == [x \in {} |-> NoneV]

\* d[key] = value
Put(d, key, value) == [x \in DOMAIN d \cup {key} |-> IF x = key THEN value ELSE d[x]]

\* d.get(key, default)
Get(d, key, default) == IF key \in DOMAIN d THEN d[key] ELSE default

NodeIds(c) == {c.nodes[i].node_id : i \in 1..Len(c.nodes)}

\* self.case.nodes[node_id], for a node_id of the case
NodeOf(c, id) == c.nodes[CHOOSE i \in 1..Len(c.nodes) : c.nodes[i].node_id = id]

GenerateSeedRules ==
    [r \in {"donation_cap", "retirement_cap", "child_credit_phaseout", "standard_deduction"} |->
        CASE r = "donation_cap" ->
                 Rule(r, "cap",
                      Call(Name("min"), <<Name("donation"),
                           BinOp(Name("gross_income"), "Mult", Constant(FloatV(1, 10)))>>))
          [] r = "retirement_cap" ->
                 Rule(r, "cap",
                      Call(Name("min"), <<Name("retirement_contribution"), Num(6000)>>))
          [] r = "child_credit_phaseout" ->
                 Rule(r, "phaseout",
                      IfExp(Compare(Name("AGI"), <<"LtE">>, <<Num(90000)>>),
                            Num(2000),
                            Call(Name("max"), <<Num(0),
                                 BinOp(Num(2000), "Sub",
                                       BinOp(Constant(FloatV(1, 20)), "Mult",
                                             BinOp(Name("AGI"), "Sub", Num(90000))))>>)))
          [] r = "standard_deduction" ->
                 Rule(r, "threshold", Num(10000))]

GenerateStandardNodes ==
    << Node("salary", "fact", <<>>, NoneV, NoFormula, NoneV),
       Node("freelance", "fact", <<>>, NoneV, NoFormula, NoneV),
       Node("donation", "fact", <<>>, NoneV, NoFormula, NoneV),
       Node("retirement_contribution", "fact", <<>>, NoneV, NoFormula, NoneV),
       Node("gross_income", "derived", <<"salary", "freelance">>, NoneV,
            BinOp(Name("salary"), "Add", Name("freelance")), NoneV),
       Node("allowable_donation", "derived", <<"donation", "gross_income">>,
            StrV("donation_cap"), NoFormula, NoneV),
       Node("allowable_retirement", "derived", <<"retirement_contribution">>,
            StrV("retirement_cap"), NoFormula, NoneV),
       Node("AGI", "derived",
            <<"gross_income", "allowable_donation", "allowable_retirement">>, NoneV,
            BinOp(BinOp(Name("gross_income"), "Sub", Name("allowable_donation")),
                  "Sub", Name("allowable_retirement")), NoneV),
       Node("child_credit", "derived", <<"AGI">>, StrV("child_credit_phaseout"),
            NoFormula, NoneV),
       Node("itemized_deduction", "derived",
            <<"allowable_donation", "allowable_retirement">>, NoneV,
            BinOp(Name("allowable_donation"), "Add", Name("allowable_retirement")), NoneV),
       Node("standard_deduction_amount", "derived", <<>>, StrV("standard_deduction"),
            NoFormula, NoneV),
       Node("deduction_choice", "derived",
            <<"standard_deduction_amount", "itemized_deduction">>, NoneV,
            Call(Name("max"), <<Name("standard_deduction_amount"),
                                Name("itemized_deduction")>>), NoneV),
       Node("taxable_income", "output", <<"gross_income", "deduction_choice">>, NoneV,
            BinOp(Name("gross_income"), "Sub", Name("deduction_choice")), NoneV) >>

\* a manual_case that leaves the rules out
ManualCaseNoRules(facts) ==
    [facts |-> [name \in DOMAIN facts |-> Fact(name, facts[name])],
     rules |-> EmptyMap,
     nodes |-> GenerateStandardNodes]

\* manual_case(case_id, facts): facts maps a fact name to its value
ManualCase(facts) ==
    [facts |-> [name \in DOMAIN facts |-> Fact(name, facts[name])],
     rules |-> GenerateSeedRules,
     nodes |-> GenerateStandardNodes]

-----------------------------------------------------------------------------
(* LogicTree: the evaluation of one node.  _compute_deduction_choice also  *)
(* writes computed_values, so the node operators return the result and    *)
(* the dict as the call leaves it: [res, cv].                              *)

\* a deduction choice whose tie goes to the itemized side
ComputeDeductionChoiceStrict(cv) ==
    LET standard_amount == Get(cv, "standard_deduction_amount", IntV(0))
        itemized_amount == Get(cv, "itemized_deduction", IntV(0))
        gt == PyLt(itemized_amount, standard_amount)
    IN  IF ~gt.ok THEN [res |-> gt, cv |-> cv]
        ELSE IF Truthy(gt.val)
        THEN [res |-> Ok(standard_amount), cv |-> Put(cv, "deduction_path", StrV("standard"))]
        ELSE [res |-> Ok(itemized_amount), cv |-> Put(cv, "deduction_path", StrV("itemized"))]

ComputeDeductionChoice(cv) ==
    LET standard_amount == Get(cv, "standard_deduction_amount", IntV(0))
        itemized_amount == Get(cv, "itemized_deduction", IntV(0))
        ge == PyLe(itemized_amount, standard_amount)
    IN  IF ~ge.ok THEN [res |-> ge, cv |-> cv]
        ELSE IF Truthy(ge.val)
        THEN [res |-> Ok(standard_amount), cv |-> Put(cv, "deduction_path", StrV("standard"))]
        ELSE [res |-> Ok(itemized_amount), cv |-> Put(cv, "deduction_path", StrV("itemized"))]

\* self.case.rules[node.rule_id], then _apply_rule
RuleOfNode(c, cv, node) ==
    IF node.rule_id.s \in DOMAIN c.rules
    THEN ApplyRule(c.rules[node.rule_id.s], cv)
    ELSE Err("KeyError", "rules", node.rule_id.s)

\* `if node.formula`: a formula that is neither None nor the empty string
HasFormula(node) == node.formula.k \notin {"None", "EmptyString"}

\* a fact node that prefers its own Node.value
FactValueFromNode(c, node) ==
    IF ~IsNone(node.value) THEN node.value
    ELSE IF node.node_id \in DOMAIN c.facts THEN c.facts[node.node_id].value ELSE NoneV

\* the value of a fact node
FactValue(c, node) ==
    IF node.node_id \in DOMAIN c.facts THEN c.facts[node.node_id].value ELSE NoneV

\* a node evaluation that prefers the rule when a node has both
ComputeNodeRuleFirst(c, cv, node) ==
    CASE node.node_type = "fact" -> [res |-> Ok(FactValue(c, node)), cv |-> cv]
      [] node.node_type = "derived" ->
            IF Truthy(node.rule_id)
            THEN [res |-> RuleOfNode(c, cv, node), cv |-> cv]
            ELSE IF HasFormula(node)
            THEN IF node.node_id = "deduction_choice"
                 THEN ComputeDeductionChoice(cv)
                 ELSE [res |-> SafeEval(node.formula, cv), cv |-> cv]
            ELSE [res |-> Ok(NoneV), cv |-> cv]
      [] node.node_type = "output" ->
            IF Truthy(node.rule_id)
            THEN [res |-> RuleOfNode(c, cv, node), cv |-> cv]
            ELSE IF HasFormula(node)
            THEN [res |-> SafeEval(node.formula, cv), cv |-> cv]
            ELSE [res |-> Ok(NoneV), cv |-> cv]
      [] OTHER -> [res |-> Ok(NoneV), cv |-> cv]

\* a node evaluation that computes a decision node as a derived node
ComputeNodeDecisionAsDerived(c, cv, node) ==
    CASE node.node_type = "fact" -> [res |-> Ok(FactValue(c, node)), cv |-> cv]
      [] node.node_type \in {"derived", "decision"} ->
            IF HasFormula(node)
            THEN IF node.node_id = "deduction_choice"
                 THEN ComputeDeductionChoice(cv)
                 ELSE [res |-> SafeEval(node.formula, cv), cv |-> cv]
            ELSE IF Truthy(node.rule_id)
            THEN [res |-> RuleOfNode(c, cv, node), cv |-> cv]
            ELSE [res |-> Ok(NoneV), cv |-> cv]
      [] node.node_type = "output" ->
            IF HasFormula(node)
            THEN [res |-> SafeEval(node.formula, cv), cv |-> cv]
            ELSE IF Truthy(node.rule_id)
            THEN [res |-> RuleOfNode(c, cv, node), cv |-> cv]
            ELSE [res |-> Ok(NoneV), cv |-> cv]
      [] OTHER -> [res |-> Ok(NoneV), cv |-> cv]

\* _compute_node(node): the value or exception, and the dict as it leaves it
ComputeNode(c, cv, node) ==
    CASE node.node_type = "fact" -> [res |-> Ok(FactValue(c, node)), cv |-> cv]
      [] node.node_type = "derived" ->
            IF HasFormula(node)
            THEN IF node.node_id = "deduction_choice"
                 THEN ComputeDeductionChoice(cv)
                 ELSE [res |-> SafeEval(node.formula, cv), cv |-> cv]
            ELSE IF Truthy(node.rule_id)
            THEN [res |-> RuleOfNode(c, cv, node), cv |-> cv]
            ELSE [res |-> Ok(NoneV), cv |-> cv]
      [] node.node_type = "output" ->
            IF HasFormula(node)
            THEN [res |-> SafeEval(node.formula, cv), cv |-> cv]
            ELSE IF Truthy(node.rule_id)
            THEN [res |-> RuleOfNode(c, cv, node), cv |-> cv]
            ELSE [res |-> Ok(NoneV), cv |-> cv]
      [] OTHER -> [res |-> Ok(NoneV), cv |-> cv]

-----------------------------------------------------------------------------
(* The cases the engine is run on *)

\* a fact the facts dict does not hold
Absent == [t |-> "absent", n |-> 0, d |-> 1, s |-> ""]

\* the facts dict with the given value (or none) for each of the four names
FactsOf(salary, freelance, donation, retirement) ==
    LET all == [name \in {"salary", "freelance", "donation", "retirement_contribution"} |->
                   CASE name = "salary"    -> salary
                     [] name = "freelance" -> freelance
                     [] name = "donation"  -> donation
                     [] OTHER              -> retirement]
    IN  [name \in {x \in DOMAIN all : all[x] # Absent} |-> all[name]]

SalaryValues == {Absent, IntV(0), IntV(40000), IntV(80000), IntV(100000)}

FreelanceValues == {Absent, IntV(15000)}

DonationValues == {Absent, IntV(1000), IntV(4000), IntV(5000), IntV(8000)}

RetirementValues == {Absent, IntV(2000), IntV(6000), IntV(7000)}

\* manual_case on every combination of the facts
StandardCases ==
    {ManualCase(FactsOf(sa, fr, do, re)) :
        sa \in SalaryValues, fr \in FreelanceValues,
        do \in DonationValues, re \in RetirementValues}

\* Small graphs with arbitrary depends_on edges: four nodes a, b, c, d in   
\* insertion order, at most MaxEdges edges among them and to "ghost", a     
\* node_id no node has.  Each node keeps its way of computing its value.   
MaxEdges == 4

GraphIds == <<"a", "b", "c", "d">>

Ghost == "ghost"

GraphTargets == <<"a", "b", "c", "d", Ghost>>

GraphEdges == {<<GraphIds[i], t>> : i \in 1..Len(GraphIds),
                                    t \in {GraphTargets[j] : j \in 1..Len(GraphTargets)}}

RECURSIVE SubsetsUpTo(_, _)
SubsetsUpTo(S, n) ==
    IF n = 0 \/ S = {} THEN {{}}
    ELSE LET x == CHOOSE y \in S : TRUE
             rest == S \ {x}
         IN  SubsetsUpTo(rest, n) \cup {T \cup {x} : T \in SubsetsUpTo(rest, n - 1)}

\* the targets of id's edges, in the order of GraphTargets
DepsOf(E, id) ==
    SelectSeq(GraphTargets, LAMBDA t : <<id, t>> \in E)

GraphCase(E) ==
    [facts |-> [name \in {"a"} |-> Fact("a", IntV(3))],
     rules |-> [r \in {"six"} |-> Rule(r, "formula", BinOp(Num(2), "Mult", Num(3)))],
     nodes |-> << Node("a", "fact", DepsOf(E, "a"), NoneV, NoFormula, IntV(7)),
                  Node("b", "derived", DepsOf(E, "b"), NoneV,
                       BinOp(Name("a"), "Add", Num(1)), NoneV),
                  Node("c", "derived", DepsOf(E, "c"), StrV("six"), NoFormula, NoneV),
                  Node("d", "output", DepsOf(E, "d"), NoneV,
                       Call(Name("max"), <<Name("b"), Name("c")>>), NoneV) >>]

GraphCases == {GraphCase(E) : E \in SubsetsUpTo(GraphEdges, MaxEdges)}

\* Variants of the standard graph, on a few fact sets
VariantFacts ==
    {FactsOf(IntV(100000), Absent, IntV(8000), IntV(6000)),
     FactsOf(IntV(40000), Absent, IntV(4000), IntV(7000)),
     FactsOf(IntV(80000), IntV(15000), Absent, Absent)}

DeductionChoiceIndex == CHOOSE i \in 1..Len(GenerateStandardNodes) :
                            GenerateStandardNodes[i].node_id = "deduction_choice"

\* deduction_choice declares no dependencies and is the first node of the dict
EarlyChoiceNodes ==
    <<[GenerateStandardNodes[DeductionChoiceIndex] EXCEPT !.depends_on = <<>>]>>
    \o SelectSeq(GenerateStandardNodes, LAMBDA n : n.node_id # "deduction_choice")

EarlyChoiceCase(facts) == [ManualCase(facts) EXCEPT !.nodes = EarlyChoiceNodes]

\* deduction_choice carries a rule_id instead of an inline formula
RuleChoiceNodes ==
    [GenerateStandardNodes EXCEPT ![DeductionChoiceIndex].formula = NoFormula,
                                  ![DeductionChoiceIndex].rule_id = StrV("deduction_max")]

RuleChoiceCase(facts) ==
    [ManualCase(facts) EXCEPT
        !.nodes = RuleChoiceNodes,
        !.rules = [r \in DOMAIN GenerateSeedRules \cup {"deduction_max"} |->
                      IF r = "deduction_max"
                      THEN Rule(r, "formula",
                                Call(Name("max"), <<Name("standard_deduction_amount"),
                                                    Name("itemized_deduction")>>))
                      ELSE GenerateSeedRules[r]]]

VariantCases ==
    {EarlyChoiceCase(f) : f \in VariantFacts} \cup {RuleChoiceCase(f) : f \in VariantFacts}

\* a fact node a and a derived node b whose formula is one name: the dict
\* holds a before b or b before a, b declares a as a dependency or not
LookupCase(fact, bFirst, deps, name) ==
    LET a == Node("a", "fact", <<>>, NoneV, NoFormula, NoneV)
        b == Node("b", "derived", deps, NoneV, Name(name), NoneV)
    IN  [facts |-> IF fact = Absent THEN EmptyMap
                   ELSE [n \in {"a"} |-> Fact("a", fact)],
         rules |-> EmptyMap,
         nodes |-> IF bFirst THEN <<b, a>> ELSE <<a, b>>]

LookupCases ==
    {LookupCase(fact, bFirst, deps, name) :
        fact \in {Absent, IntV(3), StrV("abc")}, bFirst \in BOOLEAN,
        deps \in {<<>>, <<"a">>}, name \in {"a", "A"}}

\* manual_case on facts that also hold a number of children; the standard
\* graph has no node for that fact
WithChildren(facts, children) == Put(facts, "children", IntV(children))

ChildrenFacts ==
    {FactsOf(IntV(0), Absent, IntV(1000), IntV(2000)),
     FactsOf(IntV(50000), Absent, IntV(2000), IntV(3000)),
     FactsOf(IntV(100000), Absent, IntV(0), IntV(0)),
     FactsOf(IntV(110000), Absent, IntV(0), IntV(0))}

ChildrenCases ==
    {ManualCase(WithChildren(facts, children)) : facts \in ChildrenFacts, children \in 0..3}

\* a fact a = 3, a node m of any computed type with any combination of
\* formula and rule_id, and an output u = m + 5
MethodTypes == {"derived", "output", "decision"}

MethodFormulas ==
    {NoFormula, EmptyFormula, BinOp(Name("a"), "Add", Num(1)),
     BinOp(Num(1), "Div", Num(0)), Name("nope")}

MethodRules == {NoneV, StrV("six"), StrV("none_such")}

MethodCase(type, formula, rule) ==
    [facts |-> [name \in {"a"} |-> Fact("a", IntV(3))],
     rules |-> [r \in {"six"} |-> Rule(r, "formula", BinOp(Num(2), "Mult", Num(3)))],
     nodes |-> << Node("a", "fact", <<>>, NoneV, NoFormula, NoneV),
                  Node("m", type, <<"a">>, rule, formula, NoneV),
                  Node("u", "output", <<"m">>, NoneV,
                       BinOp(Name("m"), "Add", Num(5)), NoneV) >>]

MethodCases ==
    {MethodCase(type, formula, rule) :
        type \in MethodTypes, formula \in MethodFormulas, rule \in MethodRules}

Cases ==
    StandardCases \cup GraphCases \cup VariantCases \cup LookupCases \cup ChildrenCases
        \cup MethodCases

-----------------------------------------------------------------------------
(* LogicTree as a state machine *)

NoOutcome == [kind |-> "none", map |-> EmptyMap, err |-> Ok(NoneV)]

Returned(m) == [kind |-> "returned", map |-> m, err |-> Ok(NoneV)]

Raised(e) == [kind |-> "raised", map |-> EmptyMap, err |-> e]

\* the node a depends_on entry or a dict key names, for a node_id of the case
DependsOn(c, id) == NodeOf(c, id).depends_on

\* a visit() that takes a node in progress for a finished one
VisitCallNoCycleCheck(c, id, vis, tmp, stk) ==
    IF id \in tmp \/ id \in vis
    THEN [err |-> Ok(NoneV), tmp |-> tmp, stk |-> stk]
    ELSE IF id \notin NodeIds(c)
    THEN [err |-> Err("KeyError", "nodes", id), tmp |-> tmp \cup {id}, stk |-> stk]
    ELSE [err |-> Ok(NoneV), tmp |-> tmp \cup {id},
          stk |-> Append(stk, [node_id |-> id, dep |-> 1])]

\* a visit() that skips a node_id the case has no node for
VisitCallSkipsMissing(c, id, vis, tmp, stk) ==
    IF id \in tmp
    THEN [err |-> Err("ValueError", "Circular dependency detected involving", id),
          tmp |-> tmp, stk |-> stk]
    ELSE IF id \in vis \/ id \notin NodeIds(c)
    THEN [err |-> Ok(NoneV), tmp |-> tmp, stk |-> stk]
    ELSE [err |-> Ok(NoneV), tmp |-> tmp \cup {id},
          stk |-> Append(stk, [node_id |-> id, dep |-> 1])]

\* visit(id) up to its first recursive call: the new temp_visited and stack,
\* or the exception it raises
VisitCall(c, id, vis, tmp, stk) ==
    IF id \in tmp
    THEN [err |-> Err("ValueError", "Circular dependency detected involving", id),
          tmp |-> tmp, stk |-> stk]
    ELSE IF id \in vis
    THEN [err |-> Ok(NoneV), tmp |-> tmp, stk |-> stk]
    ELSE IF id \notin NodeIds(c)
    THEN [err |-> Err("KeyError", "nodes", id), tmp |-> tmp \cup {id}, stk |-> stk]
    ELSE [err |-> Ok(NoneV), tmp |-> tmp \cup {id},
          stk |-> Append(stk, [node_id |-> id, dep |-> 1])]

\* _safe_eval has not been called
NotEvaluated == Err("", "not evaluated", "")

\* run_batch has not been called
BatchIdle ==
    /\ batch_n = 0 /\ batch_i = 0 /\ batch_pc = "idle"
    /\ batch_cases = <<>> /\ individual_scores = <<>> /\ all_failed_checks = <<>>
    /\ batch_results = [kind |-> "none"]

\* self_consistency has not been called
ConsistencyIdle ==
    /\ sc_k = 0 /\ sc_temperature = 0 /\ sc_i = 0 /\ sc_pc = "idle"
    /\ llm_temperature = 0 /\ original_temp = 0 /\ temperature_before = 0
    /\ individual_amounts = <<>> /\ sc_scores = <<>>
    /\ sc_results = [kind |-> "none"]

\* __init__: the state after LogicTree(case)
Init ==
    /\ case \in Cases
    /\ computed_values = EmptyMap
    /\ pc = "ready"
    /\ visited = {} /\ temp_visited = {} /\ result = <<>> /\ stack = <<>> /\ loop = 0
    /\ steps = 0
    /\ ordered_nodes = <<>> /\ idx = 0
    /\ outcome = NoOutcome /\ prev = NoOutcome
    /\ alias = FALSE
    /\ eval_expression = NoFormula /\ eval_context = EmptyMap /\ eval_result = NotEvaluated
    /\ eval_via = "_safe_eval"
    /\ BatchIdle /\ ConsistencyIdle

\* a fresh LogicTree(case) for the same case; the finished call's locals are gone
Construct ==
    /\ pc \in {"done", "failed"}
    /\ computed_values' = EmptyMap
    /\ pc' = "ready"
    /\ alias' = FALSE
    /\ ordered_nodes' = <<>> /\ idx' = 0
    /\ UNCHANGED <<case, visited, temp_visited, result, stack, loop, steps,
                   outcome, prev, evalVars, suiteVars>>

\* compute() is called; _topological_sort sets up its locals
ComputeCall ==
    /\ pc \in {"ready", "done", "failed"}
    /\ pc' = "sort"
    /\ visited' = {} /\ temp_visited' = {} /\ result' = <<>> /\ stack' = <<>>
    /\ loop' = 1 /\ steps' = 0
    /\ ordered_nodes' = <<>> /\ idx' = 0
    /\ prev' = outcome
    /\ UNCHANGED <<case, computed_values, outcome, alias, evalVars, suiteVars>>

\* the exception e leaves _topological_sort and compute()
SortRaises(e) ==
    /\ pc' = "failed"
    /\ outcome' = Raised(e)
    /\ visited' = {} /\ temp_visited' = {} /\ result' = <<>> /\ stack' = <<>>
    /\ loop' = 0 /\ steps' = 0
    /\ UNCHANGED <<ordered_nodes, idx>>

\* `for node_id in self.case.nodes: if node_id not in visited: visit(node_id)`,
\* and `return result` after the last node
SortLoop ==
    /\ pc = "sort" /\ stack = <<>>
    /\ IF loop > Len(case.nodes)
       THEN /\ ordered_nodes' = result
            /\ pc' = "eval" /\ idx' = 1
            /\ visited' = {} /\ temp_visited' = {} /\ result' = <<>> /\ stack' = <<>>
            /\ loop' = 0 /\ steps' = 0
            /\ UNCHANGED outcome
       ELSE LET id == case.nodes[loop].node_id
                v == VisitCall(case, id, visited, temp_visited, stack)
            IN  IF id \in visited
                THEN /\ loop' = loop + 1 /\ steps' = steps + 1
                     /\ UNCHANGED <<pc, visited, temp_visited, result, stack,
                                    ordered_nodes, idx, outcome>>
                ELSE IF ~v.err.ok THEN SortRaises(v.err)
                ELSE /\ loop' = loop + 1 /\ steps' = steps + 1
                     /\ temp_visited' = v.tmp /\ stack' = v.stk
                     /\ UNCHANGED <<pc, visited, result, ordered_nodes, idx, outcome>>
    /\ UNCHANGED <<case, computed_values, prev, alias, evalVars, suiteVars>>

\* `for dep in node.depends_on: visit(dep)` in the innermost active visit()
VisitDep ==
    /\ pc = "sort" /\ stack # <<>>
    /\ LET top == stack[Len(stack)]
           deps == DependsOn(case, top.node_id)
       IN  /\ top.dep <= Len(deps)
           /\ LET stk == [stack EXCEPT ![Len(stack)].dep = top.dep + 1]
                  v == VisitCall(case, deps[top.dep], visited, temp_visited, stk)
              IN  IF ~v.err.ok THEN SortRaises(v.err)
                  ELSE /\ temp_visited' = v.tmp /\ stack' = v.stk
                       /\ steps' = steps + 1
                       /\ UNCHANGED <<pc, visited, result, loop, ordered_nodes, idx, outcome>>
    /\ UNCHANGED <<case, computed_values, prev, alias, evalVars, suiteVars>>

\* a visit() that returns without temp_visited.remove(node_id)
VisitReturnKeepsTemp ==
    /\ pc = "sort" /\ stack # <<>>
    /\ LET top == stack[Len(stack)]
       IN  /\ top.dep > Len(DependsOn(case, top.node_id))
           /\ temp_visited' = temp_visited
           /\ visited' = visited \cup {top.node_id}
           /\ result' = Append(result, top.node_id)
           /\ stack' = SubSeq(stack, 1, Len(stack) - 1)
           /\ steps' = steps + 1
    /\ UNCHANGED <<case, computed_values, pc, loop, ordered_nodes, idx, outcome, prev, alias, evalVars, suiteVars>>

\* a visit() that evaluates its node as soon as the node is sorted
VisitReturnEvaluates ==
    /\ pc = "sort" /\ stack # <<>>
    /\ LET top == stack[Len(stack)]
           r == ComputeNode(case, computed_values, NodeOf(case, top.node_id))
       IN  /\ top.dep > Len(DependsOn(case, top.node_id))
           /\ temp_visited' = temp_visited \ {top.node_id}
           /\ visited' = visited \cup {top.node_id}
           /\ result' = Append(result, top.node_id)
           /\ stack' = SubSeq(stack, 1, Len(stack) - 1)
           /\ steps' = steps + 1
           /\ computed_values' = IF r.res.ok THEN Put(r.cv, top.node_id, r.res.val) ELSE r.cv
    /\ UNCHANGED <<case, pc, loop, ordered_nodes, idx, outcome, prev, alias, evalVars, suiteVars>>

\* the innermost visit() has visited all dependencies and returns
VisitReturn ==
    /\ pc = "sort" /\ stack # <<>>
    /\ LET top == stack[Len(stack)]
       IN  /\ top.dep > Len(DependsOn(case, top.node_id))
           /\ temp_visited' = temp_visited \ {top.node_id}
           /\ visited' = visited \cup {top.node_id}
           /\ result' = Append(result, top.node_id)
           /\ stack' = SubSeq(stack, 1, Len(stack) - 1)
           /\ steps' = steps + 1
    /\ UNCHANGED <<case, computed_values, pc, loop, ordered_nodes, idx, outcome, prev, alias, evalVars, suiteVars>>

\* a loop that catches the evaluator's exception and goes on to the next node
EvalNodeSkipsFailure ==
    /\ pc = "eval" /\ idx <= Len(ordered_nodes)
    /\ LET node_id == ordered_nodes[idx]
           r == ComputeNode(case, computed_values, NodeOf(case, node_id))
       IN  /\ computed_values' = IF r.res.ok THEN Put(r.cv, node_id, r.res.val) ELSE r.cv
           /\ idx' = idx + 1
           /\ UNCHANGED <<pc, outcome>>
    /\ UNCHANGED <<case, visited, temp_visited, result, stack, loop, steps,
                   ordered_nodes, prev, alias, evalVars, suiteVars>>

\* a round that evaluates the node and goes on without writing its result
EvalNodeDropsResult ==
    /\ pc = "eval" /\ idx <= Len(ordered_nodes)
    /\ LET node_id == ordered_nodes[idx]
           r == ComputeNode(case, computed_values, NodeOf(case, node_id))
       IN  IF r.res.ok
           THEN /\ computed_values' = r.cv
                /\ idx' = idx + 1
                /\ UNCHANGED <<pc, outcome>>
           ELSE /\ computed_values' = r.cv
                /\ pc' = "failed"
                /\ outcome' = Raised(r.res)
                /\ UNCHANGED idx
    /\ UNCHANGED <<case, visited, temp_visited, result, stack, loop, steps,
                   ordered_nodes, prev, alias, evalVars, suiteVars>>

\* one round of `for node_id in ordered_nodes`
EvalNode ==
    /\ pc = "eval" /\ idx <= Len(ordered_nodes)
    /\ LET node_id == ordered_nodes[idx]
           r == ComputeNode(case, computed_values, NodeOf(case, node_id))
       IN  IF r.res.ok
           THEN /\ computed_values' = Put(r.cv, node_id, r.res.val)
                /\ idx' = idx + 1
                /\ UNCHANGED <<pc, outcome>>
           ELSE /\ computed_values' = r.cv
                /\ pc' = "failed"
                /\ outcome' = Raised(r.res)
                /\ UNCHANGED idx
    /\ UNCHANGED <<case, visited, temp_visited, result, stack, loop, steps,
                   ordered_nodes, prev, alias, evalVars, suiteVars>>

\* `return self.computed_values`
Return ==
    /\ pc = "eval" /\ idx > Len(ordered_nodes)
    /\ pc' = "done"
    /\ outcome' = Returned(computed_values)
    /\ alias' = TRUE
    /\ UNCHANGED <<case, computed_values, visited, temp_visited, result, stack, loop,
                   steps, ordered_nodes, idx, prev, evalVars, suiteVars>>

Next ==
    \/ Construct
    \/ ComputeCall
    \/ SortLoop
    \/ VisitDep
    \/ VisitReturn
    \/ EvalNode
    \/ Return

Spec == Init /\ [][Next]_vars

\* the steps of a compute() call that has begun
Running == SortLoop \/ VisitDep \/ VisitReturn \/ EvalNode \/ Return

-----------------------------------------------------------------------------
(* _safe_eval on its own: every expression below in every context below *)

ArithOps == {"Add", "Sub", "Mult", "Div"}

CompareOps == {"Eq", "NotEq", "Lt", "LtE", "Gt", "GtE"}

\* the operands: two names and two literals
Atoms == {Name("x"), Name("y"), Num(0), Num(5)}

BinOpExpressions == {BinOp(l, op, r) : l \in Atoms, op \in ArithOps, r \in Atoms}

MinMaxExpressions == {Call(Name(f), <<l, r>>) : f \in {"min", "max"}, l \in Atoms, r \in Atoms}

CompareExpressions == {Compare(l, <<op>>, <<r>>) : l \in Atoms, op \in CompareOps, r \in Atoms}

\* an operator applied to the result of another one
NestedExpressions ==
    {BinOp(BinOp(Name("x"), op1, Name("y")), op2, Name("x")) : op1 \in ArithOps, op2 \in ArithOps}
    \cup {Call(Name(f), <<Name("x"), BinOp(Name("y"), op, Num(5))>>) :
              f \in {"min", "max"}, op \in ArithOps}

\* sub-expressions whose evaluation raises in every context used here:
\* a name no context binds, 5 / 0, and -5
FailingBranches ==
    {Name("z"), BinOp(Num(5), "Div", Num(0)), UnaryOp("USub", Num(5))}

Branches == {Num(5), Name("y")} \cup FailingBranches

\* <a> if <c> else <b>
IfExpExpressions ==
    {IfExp(c, a, b) : c \in {Name("x"), Compare(Name("x"), <<"Gt">>, <<Num(0)>>)},
                      a \in Branches, b \in Branches}

\* one expression per construct _eval_ast rejects: x < y < 5, x and y, -5,
\* -x, x.real, x[0], x.real(y), x % y, x ** y, x // y
Unsupported ==
    {Compare(Name("x"), <<"Lt", "Lt">>, <<Name("y"), Num(5)>>),
     BoolOp("And", <<Name("x"), Name("y")>>),
     BoolOp("Or", <<Name("x"), Name("y")>>),
     UnaryOp("USub", Num(5)),
     UnaryOp("USub", Name("x")),
     Attribute(Name("x"), "real"),
     Subscript(Name("x"), Num(0)),
     Call(Attribute(Name("x"), "real"), <<Name("y")>>),
     BinOp(Name("x"), "Mod", Name("y")),
     BinOp(Name("x"), "Pow", Name("y")),
     BinOp(Name("x"), "FloorDiv", Name("y"))}

\* the places of an expression tree an unsupported construct u can take
Around(u) ==
    {u,
     BinOp(u, "Add", Num(5)), BinOp(Num(5), "Mult", u),
     Call(Name("min"), <<u, Num(5)>>), Call(Name("max"), <<Num(5), u>>),
     Compare(u, <<"Lt">>, <<Num(5)>>), Compare(Num(5), <<"Eq">>, <<u>>),
     IfExp(u, Num(5), Num(0)), IfExp(Name("x"), u, Num(5)), IfExp(Name("x"), Num(5), u),
     BinOp(Num(5), "Sub", Call(Name("min"), <<Num(0), u>>)),
     CallKw(Name("min"), <<Name("x"), Num(5)>>, <<[arg |-> "key", value |-> u]>>)}

UnsupportedExpressions == UNION {Around(u) : u \in Unsupported}

\* calls: f(), f(x), f(x, y), f(x, y, x), f(z, y, x), and a callee that is
\* not a name
CallExpressions ==
    {Call(Name(f), args) :
        f \in {"min", "max", "abs", "foo"},
        args \in {<<>>, <<Name("x")>>, <<Name("x"), Name("y")>>,
                  <<Name("x"), Name("y"), Name("x")>>,
                  <<Name("z"), Name("y"), Name("x")>>}}
    \cup {CallKw(Name(f), <<Name("x")>>, <<[arg |-> "key", value |-> Name("y")]>>) :
              f \in {"min", "max"}}

\* a name alone, literals alone, and literals of strings in a + - * /
LiteralExpressions ==
    {Name("x"), Name("y"), Name("z"), Num(5), Constant(NoneV), Constant(StrV("abc"))}
    \cup {BinOp(Constant(StrV("abc")), op, r) :
              op \in ArithOps, r \in {Constant(StrV("xyz")), Name("x"), Num(5)}}
    \cup {BinOp(Name("x"), "Div", BinOp(Name("y"), "Sub", Name("y")))}

\* the formulas of the seed rules, and formula fields that are no expression
RuleFormulas ==
    {GenerateSeedRules[r].formula : r \in DOMAIN GenerateSeedRules}
    \cup {NoFormula, EmptyFormula, BadSyntax}

EvalExpressions ==
    BinOpExpressions \cup MinMaxExpressions \cup CompareExpressions \cup NestedExpressions
    \cup IfExpExpressions \cup UnsupportedExpressions \cup CallExpressions
    \cup LiteralExpressions \cup RuleFormulas

ContextValues ==
    {NoneV, IntV(0), IntV(5), IntV(-3), FloatV(1, 2), FloatV(0, 1), BoolV(TRUE), BoolV(FALSE),
     StrV("abc")}

\* the AGI values the phase-out rule is evaluated on
AGIValues ==
    {NoneV, IntV(-5), IntV(0), IntV(80000), IntV(90000), FloatV(90000, 1), IntV(95000),
     IntV(100000), FloatV(101000, 1), IntV(110000), IntV(130000), IntV(130001), IntV(140000)}

\* x is always bound; y may be unbound; the names of the seed rules are
\* bound in contexts of their own
EvalContexts ==
    {[n \in {"x", "y"} |-> IF n = "x" THEN vx ELSE vy] : vx \in ContextValues, vy \in ContextValues}
    \cup {[n \in {"x"} |-> vx] : vx \in ContextValues}
    \cup {[n \in {"AGI"} |-> v] : v \in AGIValues}

InitEval ==
    /\ case = GraphCase({})
    /\ computed_values = EmptyMap
    /\ pc = "ready"
    /\ visited = {} /\ temp_visited = {} /\ result = <<>> /\ stack = <<>> /\ loop = 0
    /\ steps = 0
    /\ ordered_nodes = <<>> /\ idx = 0
    /\ outcome = NoOutcome /\ prev = NoOutcome
    /\ alias = FALSE
    /\ eval_expression \in EvalExpressions
    /\ eval_context \in EvalContexts
    /\ eval_result = NotEvaluated
    /\ eval_via = "_safe_eval"
    /\ BatchIdle /\ ConsistencyIdle

\* _safe_eval(expression, context) is called and returns or raises
SafeEvalCall ==
    /\ eval_result = NotEvaluated
    /\ eval_result' = SafeEval(eval_expression, eval_context)
    /\ UNCHANGED <<treeVars, eval_expression, eval_context, eval_via, suiteVars>>

\* _apply_rule(rule, context) is called on a rule of some kind whose
\* formula is the expression, and returns or raises
ApplyRuleCall ==
    /\ eval_result = NotEvaluated
    /\ \E kind \in RuleKinds :
          /\ eval_via' = kind
          /\ eval_result' = ApplyRule(Rule("rule", kind, eval_expression), eval_context)
    /\ UNCHANGED <<treeVars, eval_expression, eval_context, suiteVars>>

NextEval == SafeEvalCall \/ ApplyRuleCall

EvalSpec == InitEval /\ [][NextEval]_vars

-----------------------------------------------------------------------------
(* The dependency graph of a case, for the statements below *)

\* the sum of the function f over the set S
RECURSIVE SumOver(_, _)
SumOver(S, f) ==
    IF S = {} THEN 0
    ELSE LET x == CHOOSE y \in S : TRUE IN f[x] + SumOver(S \ {x}, f)

\* the depends_on entries of node id (none for an id no node has)
Succ(c, id) ==
    IF id \in NodeIds(c)
    THEN {DependsOn(c, id)[j] : j \in 1..Len(DependsOn(c, id))}
    ELSE {}

RECURSIVE ReachN(_, _, _)
ReachN(c, S, n) ==
    IF n = 0 THEN S ELSE ReachN(c, S \cup UNION {Succ(c, x) : x \in S}, n - 1)

\* what id reaches through one or more depends_on edges
Reach(c, id) == ReachN(c, Succ(c, id), Len(c.nodes))

OnCycle(c, id) == id \in Reach(c, id)

\* what is left of the nodes R after taking away, again and again, every
\* node none of whose depends_on entries is in R
RECURSIVE Peel(_, _)
Peel(c, R) ==
    LET free == {id \in R : Succ(c, id) \cap R = {}}
    IN  IF free = {} THEN R ELSE Peel(c, R \ free)

\* some node reaches itself
Cyclic(c) == Peel(c, NodeIds(c)) # {}

\* the number of depends_on entries of the case
EdgeCount(c) == SumOver(1..Len(c.nodes), [i \in 1..Len(c.nodes) |-> Len(c.nodes[i].depends_on)])

\* every depends_on entry names a node of the case
Closed(c) == \A id \in NodeIds(c) : Succ(c, id) \subseteq NodeIds(c)

\* position of id in the order o
IndexIn(o, id) == CHOOSE i \in 1..Len(o) : o[i] = id

\* the running (or latest) compute() call got its order from _topological_sort
SortReturned == idx >= 1

\* the latest compute() call failed inside _topological_sort
SortFailed == pc = "failed" /\ idx = 0

IsCycleError(e) ==
    ~e.ok /\ e.exc = "ValueError" /\ e.msg = "Circular dependency detected involving"

IsLookupError(e) == ~e.ok /\ e.exc = "KeyError" /\ e.msg = "nodes"

Diamond == GraphCase({<<"b", "a">>, <<"c", "a">>, <<"d", "b">>, <<"d", "c">>})

-----------------------------------------------------------------------------
\* C1: on an acyclic case whose depends_on entries all name existing nodes
\* _topological_sort does not fail, and the order it returns holds every
\* node_id of the case exactly once, each after all of its depends_on entries.
C1_TopologicalOrder ==
    /\ SortFailed => (Cyclic(case) \/ ~Closed(case))
    /\ (SortReturned /\ ~Cyclic(case) /\ Closed(case)) =>
          /\ Len(ordered_nodes) = Len(case.nodes)
          /\ {ordered_nodes[i] : i \in 1..Len(ordered_nodes)} = NodeIds(case)
          /\ \A id \in NodeIds(case) : \A dep \in Succ(case, id) :
                IndexIn(ordered_nodes, dep) < IndexIn(ordered_nodes, id)

\* the sorter has returned an order for the diamond d -> {b, c} -> a
C1_Witness == case = Diamond /\ SortReturned /\ ordered_nodes = <<"a", "b", "c", "d">>

\* the sorter has returned an order for a graph with isolated nodes
C1_WitnessIsolated == case = GraphCase({<<"c", "b">>}) /\ SortReturned

-----------------------------------------------------------------------------
\* C2 as stated: on a case with a cycle, compute() never gets an order and
\* never returns, and when it has failed the error is 'Circular dependency
\* detected' naming a node on a cycle.
C2_Original ==
    Cyclic(case) =>
        /\ pc \notin {"eval", "done"}
        /\ pc = "failed" => (IsCycleError(outcome.err) /\ OnCycle(case, outcome.err.arg))

\* how a failed sort may end on a case with a cycle: the cycle error naming a
\* node on a cycle, or the lookup error of a depends_on entry no node has
CycleFailure ==
    \/ IsCycleError(outcome.err) /\ OnCycle(case, outcome.err.arg)
    \/ IsLookupError(outcome.err) /\ ~Closed(case) /\ outcome.err.arg \notin NodeIds(case)

\* C2 (amended): on a case with a cycle, compute() never gets an order and
\* never returns; the sort ends by failing, with 'Circular dependency
\* detected' naming a node on a cycle when every depends_on entry names an
\* existing node, and otherwise with that error or the lookup error of a
\* missing node.  The recursion is bounded: visit() never nests deeper than
\* the number of nodes, a running sort can always take its next step, and it
\* takes at most one step per loop round, per depends_on entry and per
\* return of visit().
C2_CycleRejected ==
    /\ Cyclic(case) =>
            /\ pc \notin {"eval", "done"}
            /\ pc = "failed" => CycleFailure
            /\ (pc = "failed" /\ Closed(case)) => IsCycleError(outcome.err)
    /\ pc = "sort" =>
            /\ Len(stack) <= Len(case.nodes)
            /\ steps <= 2 * Len(case.nodes) + EdgeCount(case) + 1
            /\ ENABLED Running

\* the sort of a three-node cycle a -> b -> c -> a has failed naming a
C2_Witness ==
    /\ case = GraphCase({<<"a", "b">>, <<"b", "c">>, <<"c", "a">>})
    /\ pc = "failed"
    /\ IsCycleError(outcome.err) /\ outcome.err.arg = "a"

\* the sort of the self-dependent node b has failed naming b
C2_WitnessSelf ==
    /\ case = GraphCase({<<"b", "b">>})
    /\ pc = "failed" /\ IsCycleError(outcome.err) /\ outcome.err.arg = "b"

-----------------------------------------------------------------------------
\* the node_ids the running (or latest) compute() call has evaluated and stored
Evaluated == {ordered_nodes[i] : i \in 1..(idx - 1)}

\* the node the latest compute() call failed on
FailedNode == NodeOf(case, ordered_nodes[idx])

\* the latest compute() call failed while evaluating a node
EvalFailed == pc = "failed" /\ SortReturned

\* C3: a finished compute() call has either raised the error of the sorter
\* or of the evaluator of the node it stopped at, or returned a map with an
\* entry for every node_id of the case; a failed call returns no map.
C3_AllOrNothing ==
    /\ pc = "done" => outcome.kind = "returned"
    /\ outcome.kind = "returned" => NodeIds(case) \subseteq DOMAIN outcome.map
    /\ pc = "failed" => (outcome.kind = "raised" /\ ~outcome.err.ok)
    /\ SortFailed => (IsCycleError(outcome.err) \/ IsLookupError(outcome.err))
    /\ EvalFailed => outcome.err = ComputeNode(case, computed_values, FailedNode).res

\* a call has failed on the third node, after storing two values, and has
\* returned nothing
C3_Witness ==
    /\ case = GraphCase({<<"c", "d">>})
    /\ EvalFailed /\ idx = 3
    /\ DOMAIN computed_values = {"a", "b"}
    /\ outcome.kind = "raised"

-----------------------------------------------------------------------------
\* C4 as stated: a compute() call that returns after an earlier call on the
\* same case has returned, on the same object or on a fresh one, returns a
\* map with the same keys and values.
C4_Deterministic ==
    (pc = "done" /\ prev.kind = "returned") => outcome.map = prev.map

-----------------------------------------------------------------------------
\* C5 as stated: when a compute() call starts the map it reads from is
\* empty, and the map a call returned still holds what it held on return.
C5_FreshMap ==
    /\ pc = "sort" => computed_values = EmptyMap
    /\ (alias /\ outcome.kind = "returned") => computed_values = outcome.map

\* the second half of C5 alone: the dict a call returned keeps its content
C5_ReturnedMapKept ==
    (alias /\ outcome.kind = "returned") => computed_values = outcome.map

-----------------------------------------------------------------------------
\* the running (or latest) call has evaluated deduction_choice
ChoiceEvaluated == SortReturned /\ "deduction_choice" \in Evaluated

TieFacts == FactsOf(IntV(100000), Absent, IntV(4000), IntV(6000))

ItemizedFacts == FactsOf(IntV(80000), Absent, IntV(8000), IntV(6000))

\* C6: on the standard graph, once deduction_choice is evaluated with
\* standard_deduction_amount = s and itemized_deduction = i, the map holds
\* deduction_choice = max(s, i) and deduction_path = "standard" if s >= i,
\* "itemized" if i > s; 4000 + 6000 against 10000 gives 10000 / "standard",
\* 8000 + 6000 gives 14000 / "itemized".
C6_DeductionChoice ==
    (case \in StandardCases /\ ChoiceEvaluated) =>
        LET s == computed_values["standard_deduction_amount"]
            i == computed_values["itemized_deduction"]
        IN  /\ IsNumber(s) /\ IsNumber(i)
            /\ computed_values["deduction_choice"] = IF NumLt(s, i) THEN i ELSE s
            /\ computed_values["deduction_path"] =
                  IF NumLt(s, i) THEN StrV("itemized") ELSE StrV("standard")
            /\ case = ManualCase(TieFacts) =>
                  /\ computed_values["deduction_choice"] = IntV(10000)
                  /\ computed_values["deduction_path"] = StrV("standard")
            /\ case = ManualCase(ItemizedFacts) =>
                  /\ computed_values["deduction_choice"] = IntV(14000)
                  /\ computed_values["deduction_path"] = StrV("itemized")

\* the tie: standard 10000 against itemized 4000 + 6000
C6_Witness ==
    /\ case = ManualCase(TieFacts) /\ ChoiceEvaluated
    /\ computed_values["itemized_deduction"] = IntV(10000)
    /\ computed_values["deduction_path"] = StrV("standard")

\* itemized 14000 wins over standard 10000
C6_WitnessItemized ==
    /\ case = ManualCase(ItemizedFacts) /\ pc = "done"
    /\ computed_values["deduction_choice"] = IntV(14000)

-----------------------------------------------------------------------------
HasDerivedChoice(c) ==
    \E i \in 1..Len(c.nodes) :
        c.nodes[i].node_id = "deduction_choice" /\ c.nodes[i].node_type = "derived"

\* C7 as stated: a map compute() returns for a case with a derived node
\* deduction_choice, whatever its computation method, holds deduction_path
\* = "standard" or "itemized".
C7_PathRecorded ==
    (outcome.kind = "returned" /\ HasDerivedChoice(case)) =>
        /\ "deduction_path" \in DOMAIN outcome.map
        /\ outcome.map["deduction_path"] \in {StrV("standard"), StrV("itemized")}

-----------------------------------------------------------------------------
\* C8: the value stored for an evaluated fact node is the value of the fact
\* named like the node, or None when the case has no such fact, whatever the
\* node's own value field holds; evaluating a fact node never fails.
C8_FactFromFacts ==
    SortReturned =>
        /\ \A id \in Evaluated :
              NodeOf(case, id).node_type = "fact" =>
                 computed_values[id] =
                    IF id \in DOMAIN case.facts THEN case.facts[id].value ELSE NoneV
        /\ EvalFailed => FailedNode.node_type # "fact"

\* fact node a, whose own value field is 7, got the fact's value 3
C8_Witness ==
    /\ case = GraphCase({}) /\ SortReturned /\ "a" \in Evaluated
    /\ NodeOf(case, "a").value = IntV(7)
    /\ computed_values["a"] = IntV(3)

\* fact node salary has no fact and got None
C8_WitnessAbsent ==
    /\ case = ManualCase(FactsOf(Absent, IntV(15000), IntV(4000), IntV(2000)))
    /\ SortReturned /\ "salary" \in Evaluated
    /\ computed_values["salary"] = NoneV

-----------------------------------------------------------------------------
SafeEvalDone == eval_result # NotEvaluated

\* the context with every None replaced by 0
ZeroFilled(ctx) == [n \in DOMAIN ctx |-> IF IsNone(ctx[n]) THEN IntV(0) ELSE ctx[n]]

\* built from names, literals, + - * / and min/max only
RECURSIVE IsArithmetic(_)
IsArithmetic(e) ==
    CASE e.k = "BinOp" -> e.op \in ArithOps /\ IsArithmetic(e.left) /\ IsArithmetic(e.right)
      [] e.k = "Call"  -> /\ e.func.k = "Name" /\ e.func.id \in {"min", "max"}
                          /\ Len(e.args) = 2
                          /\ IsArithmetic(e.args[1]) /\ IsArithmetic(e.args[2])
      [] e.k = "Name"  -> TRUE
      [] e.k = "Constant" -> ~IsNone(e.value)
      [] OTHER -> FALSE

\* the value of an operand that is a bound name or a literal
AtomValue(a, ctx) == IF a.k = "Name" THEN ctx[a.id] ELSE a.value

IsBound(a, ctx) == a.k = "Name" => a.id \in DOMAIN ctx

\* C9: an expression of + - * / and min/max evaluates, in a context where
\* some names are None, to what it evaluates to with those names set to 0:
\* the same value or the same failure.  With two names that each hold None
\* or an int, + - * and min/max do not fail, and x + y with y None and x a
\* number is x.
C9_NoneAsZero ==
    (SafeEvalDone /\ IsArithmetic(eval_expression) /\ eval_expression.k # "Name") =>
        /\ eval_result = SafeEval(eval_expression, ZeroFilled(eval_context))
        /\ (/\ eval_expression \in BinOpExpressions \cup MinMaxExpressions
            /\ \A n \in DOMAIN eval_context : eval_context[n].t \in {"none", "int"}
            /\ DOMAIN eval_context = {"x", "y"}
            /\ eval_expression.k = "BinOp" => eval_expression.op # "Div")
           => eval_result.ok
        /\ (/\ eval_expression = BinOp(Name("x"), "Add", Name("y"))
            /\ DOMAIN eval_context = {"x", "y"}
            /\ IsNone(eval_context["y"]) /\ eval_context["x"].t \in {"int", "float"})
           => eval_result = Ok(eval_context["x"])

\* x + y with x = 5 and y missing has given 5
C9_Witness ==
    /\ eval_expression = BinOp(Name("x"), "Add", Name("y"))
    /\ eval_context = [n \in {"x", "y"} |-> IF n = "x" THEN IntV(5) ELSE NoneV]
    /\ eval_result = Ok(IntV(5))

\* min(x, y) with x missing and y = -3 has given -3
C9_WitnessMin ==
    /\ eval_expression = Call(Name("min"), <<Name("x"), Name("y")>>)
    /\ eval_context = [n \in {"x", "y"} |-> IF n = "x" THEN NoneV ELSE IntV(-3)]
    /\ eval_result = Ok(IntV(-3))

-----------------------------------------------------------------------------
\* C10: a comparison with an operand that is None is evaluated on None, not
\* on 0: == and != compare with None itself (None == 0 is False, None != 0
\* is True, None == None is True), and < <= > >= raise a TypeError instead of
\* returning a boolean.
C10_CompareNotCoerced ==
    (/\ SafeEvalDone
     /\ eval_expression \in CompareExpressions
     /\ IsBound(eval_expression.left, eval_context)
     /\ IsBound(eval_expression.comparators[1], eval_context)) =>
        LET l == AtomValue(eval_expression.left, eval_context)
            r == AtomValue(eval_expression.comparators[1], eval_context)
            op == eval_expression.ops[1]
        IN  (IsNone(l) \/ IsNone(r)) =>
               CASE op = "Eq"    -> eval_result = Ok(BoolV(IsNone(l) /\ IsNone(r)))
                 [] op = "NotEq" -> eval_result = Ok(BoolV(~(IsNone(l) /\ IsNone(r))))
                 [] OTHER        -> ~eval_result.ok /\ eval_result.exc = "TypeError"

\* x == 0 with x missing has given False
C10_Witness ==
    /\ eval_expression = Compare(Name("x"), <<"Eq">>, <<Num(0)>>)
    /\ eval_context = [n \in {"x"} |-> NoneV]
    /\ eval_result = Ok(BoolV(FALSE))

\* x < 5 with x missing has raised
C10_WitnessOrdering ==
    /\ eval_expression = Compare(Name("x"), <<"Lt">>, <<Num(5)>>)
    /\ eval_context = [n \in {"x"} |-> NoneV]
    /\ eval_result.exc = "TypeError"

-----------------------------------------------------------------------------
\* C11: a ternary evaluates its condition and both of its branches: when
\* the evaluation of either branch raises, the whole expression raises,
\* also when the failing branch is the one the condition does not select
\* and the selected branch alone has a value; the error is that of the
\* first part that fails, and a value is returned only when all three
\* parts have one.
C11_BothBranchesEvaluated ==
    (SafeEvalDone /\ eval_expression \in IfExpExpressions) =>
        LET c == SafeEval(eval_expression.test, eval_context)
            a == SafeEval(eval_expression.body, eval_context)
            b == SafeEval(eval_expression.orelse, eval_context)
        IN  /\ (~a.ok \/ ~b.ok) => ~eval_result.ok
            /\ eval_result.ok => c.ok /\ a.ok /\ b.ok
            /\ (c.ok /\ Truthy(c.val) /\ a.ok /\ ~b.ok) => eval_result = b
            /\ (c.ok /\ ~Truthy(c.val) /\ ~a.ok) => eval_result = a
            /\ (c.ok /\ a.ok /\ b.ok) =>
                   eval_result = IF Truthy(c.val) THEN a ELSE b

\* 5 if x else z with x = 5 and no z has raised for z, though 5 is selected
C11_Witness ==
    /\ eval_expression = IfExp(Name("x"), Num(5), Name("z"))
    /\ eval_context = [n \in {"x"} |-> IntV(5)]
    /\ eval_result = Err("ValueError", "Undefined variable", "z")

\* 5 / 0 if x else y with x = 0 and y = 5 has raised, though y is selected
C11_WitnessDivision ==
    /\ eval_expression = IfExp(Name("x"), BinOp(Num(5), "Div", Num(0)), Name("y"))
    /\ eval_context = [n \in {"x", "y"} |-> IF n = "x" THEN IntV(0) ELSE IntV(5)]
    /\ eval_result = Err("ValueError", "Division by zero", "")

-----------------------------------------------------------------------------
\* the sub-expressions of e, one level down; the values of a call's keyword
\* arguments are among them iff kw
SubExpressions(e, kw) ==
    CASE e.k = "BinOp"   -> {e.left, e.right}
      [] e.k = "Call"    -> {e.func} \cup {e.args[i] : i \in 1..Len(e.args)}
                            \cup (IF kw THEN {e.keywords[i].value : i \in 1..Len(e.keywords)}
                                  ELSE {})
      [] e.k = "Compare" -> {e.left} \cup {e.comparators[i] : i \in 1..Len(e.comparators)}
      [] e.k = "IfExp"   -> {e.test, e.body, e.orelse}
      [] OTHER           -> {}

\* e is itself a construct outside the grammar: a chained comparison, and/or,
\* a unary operator, attribute access, subscripting, a call whose callee is
\* not a plain name, a binary operator other than + - * /
OutsideGrammar(e) ==
    CASE e.k \in {"UnaryOp", "BoolOp", "Attribute", "Subscript"} -> TRUE
      [] e.k = "BinOp"   -> e.op \notin ArithOps
      [] e.k = "Call"    -> e.func.k # "Name"
      [] e.k = "Compare" -> Len(e.ops) # 1
      [] OTHER           -> FALSE

\* some construct outside the grammar occurs in the tree of e
RECURSIVE UsesOutsideGrammar(_, _)
UsesOutsideGrammar(e, kw) ==
    OutsideGrammar(e) \/ \E sub \in SubExpressions(e, kw) : UsesOutsideGrammar(sub, kw)

\* C12 as stated: an expression with a construct outside the grammar
\* anywhere in its tree raises and has no value.
C12_OutsideGrammarFails ==
    (SafeEvalDone /\ UsesOutsideGrammar(eval_expression, TRUE)) => ~eval_result.ok

\* what does hold: a construct outside the grammar anywhere but in a keyword
\* argument of a call makes the expression raise
C12_OutsideGrammarFailsWhereEvaluated ==
    (SafeEvalDone /\ UsesOutsideGrammar(eval_expression, FALSE)) => ~eval_result.ok

\* min(x, 5, key=-5) with x = 0 has returned 0
C12_KeywordIgnored ==
    /\ eval_expression =
           CallKw(Name("min"), <<Name("x"), Num(5)>>,
                  <<[arg |-> "key", value |-> UnaryOp("USub", Num(5))]>>)
    /\ eval_context = [n \in {"x"} |-> IntV(0)]
    /\ eval_result = Ok(IntV(0))

-----------------------------------------------------------------------------
\* C13 as stated: a + whose two operands evaluate to strings raises instead
\* of returning the concatenated string.
C13_ConcatenationFails ==
    (SafeEvalDone /\ eval_expression.k = "BinOp" /\ eval_expression.op = "Add") =>
        LET l == SafeEval(eval_expression.left, eval_context)
            r == SafeEval(eval_expression.right, eval_context)
        IN  (l.ok /\ r.ok /\ l.val.t = "str" /\ r.val.t = "str") => ~eval_result.ok

\* 'abc' + 'xyz' has returned 'abcxyz'
C13_Concatenated ==
    /\ eval_expression = BinOp(Constant(StrV("abc")), "Add", Constant(StrV("xyz")))
    /\ eval_result = Ok(StrV("abcxyz"))

-----------------------------------------------------------------------------
\* C14: a call returns a value only if its callee is the name min or max
\* and it has exactly two positional arguments.  A call to another name
\* raises 'Unsupported function', a call to min or max with another number
\* of positional arguments raises 'requires exactly 2 arguments', a callee
\* that is no name raises 'Unsupported function call'; each is raised before
\* any argument is evaluated, so it is the error also when an argument
\* would raise.
C14_OnlyMinMaxOfTwo ==
    (SafeEvalDone /\ eval_expression.k = "Call") =>
        LET f == eval_expression.func
            n == Len(eval_expression.args)
        IN  /\ eval_result.ok => f.k = "Name" /\ f.id \in {"min", "max"} /\ n = 2
            /\ (f.k = "Name" /\ f.id \notin {"min", "max"}) =>
                   eval_result = Err("ValueError", "Unsupported function", f.id)
            /\ (f.k = "Name" /\ f.id \in {"min", "max"} /\ n # 2) =>
                   eval_result = Err("ValueError", "requires exactly 2 arguments", f.id)
            /\ f.k # "Name" =>
                   eval_result = Err("ValueError", "Unsupported function call", "")

\* abs(x, y) with x = -3 and y = 5 has raised
C14_Witness ==
    /\ eval_expression = Call(Name("abs"), <<Name("x"), Name("y")>>)
    /\ eval_context = [n \in {"x", "y"} |-> IF n = "x" THEN IntV(-3) ELSE IntV(5)]
    /\ eval_result = Err("ValueError", "Unsupported function", "abs")

\* min(z, y, x) has raised for its three arguments, not for the unbound z
C14_WitnessArity ==
    /\ eval_expression = Call(Name("min"), <<Name("z"), Name("y"), Name("x")>>)
    /\ eval_result = Err("ValueError", "requires exactly 2 arguments", "min")

-----------------------------------------------------------------------------
\* the expression _compute_node hands to _safe_eval for a node, NoFormula
\* when it hands none (a fact, the deduction_choice special case, a node
\* with neither formula nor rule, a rule_id that names no rule)
FormulaOf(c, node) ==
    IF node.node_type \notin {"derived", "output"} THEN NoFormula
    ELSE IF HasFormula(node)
    THEN IF node.node_type = "derived" /\ node.node_id = "deduction_choice"
         THEN NoFormula ELSE node.formula
    ELSE IF Truthy(node.rule_id) /\ node.rule_id.s \in DOMAIN c.rules
    THEN c.rules[node.rule_id.s].formula
    ELSE NoFormula

\* the names _eval_ast looks up when it evaluates e and nothing raises
RECURSIVE NamesOf(_)
NamesOf(e) ==
    CASE e.k = "Name"    -> {e.id}
      [] e.k = "BinOp"   -> NamesOf(e.left) \cup NamesOf(e.right)
      [] e.k = "Call"    -> IF CallCheck(e).ok
                            THEN NamesOf(e.args[1]) \cup NamesOf(e.args[2]) ELSE {}
      [] e.k = "Compare" -> IF Len(e.ops) = 1 /\ Len(e.comparators) = 1
                            THEN NamesOf(e.left) \cup NamesOf(e.comparators[1]) ELSE {}
      [] e.k = "IfExp"   -> NamesOf(e.test) \cup NamesOf(e.body) \cup NamesOf(e.orelse)
      [] OTHER           -> {}

\* the node compute() evaluates next
NextNode == NodeOf(case, ordered_nodes[idx])

\* the next node's formula names something computed_values has no key for
NamesUncomputed ==
    /\ pc = "eval" /\ idx <= Len(ordered_nodes)
    /\ ~(NamesOf(FormulaOf(case, NextNode)) \subseteq DOMAIN computed_values)

\* the one name the formula of node b of a lookup case consists of
LookupName == NodeOf(case, "b").formula.id

\* C15: a name is looked up in the context by its exact spelling.  A node
\* whose formula is the name of a computed node gets that node's value, None
\* included; and whenever compute() comes to a node whose formula names
\* something that is no key of computed_values (a node not yet computed, a
\* name spelled differently), that step raises and compute() fails.
C15_ExactNameLookup ==
    /\ [](( case \in LookupCases /\ SortReturned /\ "b" \in Evaluated ) =>
            /\ LookupName \in DOMAIN computed_values
            /\ computed_values["b"] = computed_values[LookupName])
    /\ [][ NamesUncomputed =>
             /\ pc' = "failed"
             /\ outcome'.kind = "raised" /\ ~outcome'.err.ok
             /\ (NextNode.formula.k = "Name" =>
                    outcome'.err = Err("ValueError", "Undefined variable",
                                       NextNode.formula.id)) ]_vars

\* b = a with the fact a absent: b has been given None
C15_Witness ==
    /\ case = LookupCase(Absent, FALSE, <<"a">>, "a")
    /\ pc = "done"
    /\ computed_values["a"] = NoneV /\ computed_values["b"] = NoneV

\* b = a with b evaluated before a: compute() has failed for the name a
C15_WitnessUncomputed ==
    /\ case = LookupCase(IntV(3), TRUE, <<>>, "a")
    /\ pc = "failed"
    /\ outcome = Raised(Err("ValueError", "Undefined variable", "a"))
    /\ computed_values = EmptyMap

\* b = A with a computed: compute() has failed for the name A
C15_WitnessSpelling ==
    /\ case = LookupCase(IntV(3), FALSE, <<"a">>, "A")
    /\ pc = "failed"
    /\ outcome = Raised(Err("ValueError", "Undefined variable", "A"))

-----------------------------------------------------------------------------
\* the value is zero for `right == 0` once None has become 0
IsZero(v) == IsNone(v) \/ (IsNumber(v) /\ v.n = 0)

\* C16: a division whose right operand evaluates to zero (0, 0.0, False) or
\* to None raises ValueError 'Division by zero' and has no value, whatever
\* the left operand is; with two numbers and a right operand that is not
\* zero the division has a value.
C16_DivisionByZero ==
    (SafeEvalDone /\ eval_expression.k = "BinOp" /\ eval_expression.op = "Div") =>
        LET l == SafeEval(eval_expression.left, eval_context)
            r == SafeEval(eval_expression.right, eval_context)
        IN  /\ (l.ok /\ r.ok /\ IsZero(r.val)) =>
                   eval_result = Err("ValueError", "Division by zero", "")
            /\ (l.ok /\ r.ok /\ IsNumber(r.val) /\ ~IsZero(r.val)
                     /\ (IsNumber(l.val) \/ IsNone(l.val))) => eval_result.ok

\* x / y with x = 5 and y missing has raised 'Division by zero'
C16_Witness ==
    /\ eval_expression = BinOp(Name("x"), "Div", Name("y"))
    /\ eval_context = [n \in {"x", "y"} |-> IF n = "x" THEN IntV(5) ELSE NoneV]
    /\ eval_result = Err("ValueError", "Division by zero", "")

\* x / (y - y) with x = 5 and y = 5 has raised 'Division by zero'
C16_WitnessComputedZero ==
    /\ eval_expression = BinOp(Name("x"), "Div", BinOp(Name("y"), "Sub", Name("y")))
    /\ eval_context = [n \in {"x", "y"} |-> IntV(5)]
    /\ eval_result = Err("ValueError", "Division by zero", "")

-----------------------------------------------------------------------------
\* C17: _apply_rule gives, for a rule of any of the four kinds, what
\* _safe_eval gives for the rule's formula in the same context: the same
\* value or the same exception; so the four kinds give the same outcome.
C17_KindHasNoEffect ==
    SafeEvalDone =>
        /\ eval_result = SafeEval(eval_expression, eval_context)
        /\ \A kind \in RuleKinds :
              ApplyRule(Rule("rule", kind, eval_expression), eval_context) = eval_result

\* the phase-out formula applied as a threshold rule to AGI = 100000 has
\* given 1500.0
C17_Witness ==
    /\ eval_via = "threshold"
    /\ eval_expression = GenerateSeedRules["child_credit_phaseout"].formula
    /\ eval_context = [n \in {"AGI"} |-> IntV(100000)]
    /\ eval_result = Ok(FloatV(1500, 1))

\* x / y applied as a cap rule to y = 0 has raised as _safe_eval does
C17_WitnessFailure ==
    /\ eval_via = "cap"
    /\ eval_expression = BinOp(Name("x"), "Div", Name("y"))
    /\ eval_context = [n \in {"x", "y"} |-> IF n = "x" THEN IntV(5) ELSE IntV(0)]
    /\ eval_result = Err("ValueError", "Division by zero", "")

-----------------------------------------------------------------------------
\* a <= b for two numbers
NumLe(a, b) == ~NumLt(b, a)

\* the smaller of two numbers, as a number
NumMin(a, b) == IF NumLt(b, a) THEN b ELSE a

\* C18: on the standard graph, with r the retirement_contribution and d the
\* donation (0 when the fact is missing) and cap = gross_income / 10:
\* allowable_retirement is min(r, 6000), is at most 6000 and is r when
\* r <= 6000; allowable_donation is min(d, cap), is at most cap and is d
\* when d <= cap.
C18_CapRules ==
    (case \in StandardCases /\ SortReturned) =>
        /\ "allowable_retirement" \in Evaluated =>
              LET r == NoneToZero(computed_values["retirement_contribution"])
                  allowed == computed_values["allowable_retirement"]
              IN  /\ IsNumber(allowed)
                  /\ NumEq(allowed, NumMin(r, IntV(6000)))
                  /\ NumLe(allowed, IntV(6000))
                  /\ NumLe(r, IntV(6000)) => NumEq(allowed, r)
        /\ "allowable_donation" \in Evaluated =>
              LET d == NoneToZero(computed_values["donation"])
                  gross == computed_values["gross_income"]
                  cap == [t |-> "float", n |-> gross.n, d |-> 10 * gross.d, s |-> ""]
                  allowed == computed_values["allowable_donation"]
              IN  /\ IsNumber(allowed)
                  /\ NumEq(allowed, NumMin(d, cap))
                  /\ NumLe(allowed, cap)
                  /\ NumLe(d, cap) => NumEq(allowed, d)

\* donation 5000 with gross income 95000 has given 5000, and retirement
\* contribution 7000 has given 6000
C18_Witness ==
    /\ case = ManualCase(FactsOf(IntV(80000), IntV(15000), IntV(5000), IntV(7000)))
    /\ pc = "done"
    /\ computed_values["gross_income"] = IntV(95000)
    /\ computed_values["allowable_donation"] = IntV(5000)
    /\ computed_values["allowable_retirement"] = IntV(6000)

\* donation 8000 with gross income 40000 has given 4000
C18_WitnessCapped ==
    /\ case = ManualCase(FactsOf(IntV(40000), Absent, IntV(8000), Absent))
    /\ pc = "done"
    /\ computed_values["gross_income"] = IntV(40000)
    /\ computed_values["allowable_donation"] = FloatV(4000, 1)

-----------------------------------------------------------------------------
\* the seed rule child_credit is computed from
ChildCreditRule == GenerateSeedRules["child_credit_phaseout"]

\* _apply_rule has been called on the phase-out formula with a number for AGI
PhaseoutApplied ==
    /\ SafeEvalDone
    /\ eval_expression = ChildCreditRule.formula
    /\ DOMAIN eval_context = {"AGI"}
    /\ IsNumber(eval_context["AGI"])

\* 2000 - 5% of (agi - 90000), as a fraction
Reduced(agi) ==
    [t |-> "float", n |-> 40000 * agi.d - (agi.n - 90000 * agi.d), d |-> 20 * agi.d, s |-> ""]

\* C19: the phase-out formula gives 2000 for every AGI <= 90000; above
\* 90000 it gives 2000 minus 5% of the excess while that is positive and 0
\* from there on; it is never negative, never above 2000, and a larger AGI
\* never gives a larger credit.
C19_Phaseout ==
    PhaseoutApplied =>
        LET agi == eval_context["AGI"]
        IN  /\ eval_result.ok /\ IsNumber(eval_result.val)
            /\ NumLe(agi, IntV(90000)) => eval_result = Ok(IntV(2000))
            /\ NumLt(IntV(90000), agi) =>
                  IF NumLt(IntV(0), Reduced(agi))
                  THEN NumEq(eval_result.val, Reduced(agi))
                  ELSE NumEq(eval_result.val, IntV(0))
            /\ NumLe(IntV(0), eval_result.val) /\ NumLe(eval_result.val, IntV(2000))
            /\ \A more \in {v \in AGIValues : IsNumber(v)} :
                  NumLe(agi, more) =>
                      LET later == ApplyRule(ChildCreditRule, [n \in {"AGI"} |-> more])
                      IN  later.ok /\ NumLe(later.val, eval_result.val)

\* AGI = 100000 has given 1500.0 through the phase-out rule
C19_Witness ==
    /\ eval_via = "phaseout"
    /\ eval_expression = ChildCreditRule.formula
    /\ eval_context = [n \in {"AGI"} |-> IntV(100000)]
    /\ eval_result = Ok(FloatV(1500, 1))

\* AGI = 140000 has given 0
C19_WitnessClamped ==
    /\ eval_via = "phaseout"
    /\ eval_expression = ChildCreditRule.formula
    /\ eval_context = [n \in {"AGI"} |-> IntV(140000)]
    /\ eval_result = Ok(IntV(0))

\* AGI = 130000 has given 0 and AGI = 90000 has given 2000
C19_WitnessEdges ==
    /\ eval_expression = ChildCreditRule.formula
    /\ \/ eval_context = [n \in {"AGI"} |-> IntV(130000)] /\ eval_result = Ok(IntV(0))
       \/ eval_context = [n \in {"AGI"} |-> IntV(90000)] /\ eval_result = Ok(IntV(2000))

-----------------------------------------------------------------------------
\* sum, difference and larger of two numbers, as fractions
NumAdd(a, b) == [t |-> "float", n |-> a.n * b.d + b.n * a.d, d |-> a.d * b.d, s |-> ""]

NumSub(a, b) == [t |-> "float", n |-> a.n * b.d - b.n * a.d, d |-> a.d * b.d, s |-> ""]

NumMax(a, b) == IF NumLt(a, b) THEN b ELSE a

\* the value of a fact of the case, None when the case has no such fact
FactOf(c, name) == IF name \in DOMAIN c.facts THEN c.facts[name].value ELSE NoneV

-----------------------------------------------------------------------------
\* the node carries a rule_id
HasRule(node) == Truthy(node.rule_id)

\* the expression a node declares: its own formula, else its rule's formula
DeclaredFormula(c, node) ==
    IF HasFormula(node) THEN node.formula
    ELSE IF HasRule(node) /\ node.rule_id.s \in DOMAIN c.rules
    THEN c.rules[node.rule_id.s].formula
    ELSE NoFormula

\* the input contract of the engine
WellFormed(c) ==
    /\ ~Cyclic(c)
    /\ Closed(c)
    /\ \A i \in 1..Len(c.nodes) :
          LET node == c.nodes[i]
          IN  /\ node.node_type \in {"derived", "output"} =>
                    (HasFormula(node) /\ ~HasRule(node)) \/ (~HasFormula(node) /\ HasRule(node))
              /\ HasRule(node) => node.rule_id.s \in DOMAIN c.rules

\* C21: a case built by manual_case, whichever of the four facts it is
\* given, is well formed (acyclic, every depends_on entry an existing node,
\* every derived/output node with exactly one of formula and rule_id, every
\* rule_id an existing rule); in the order the sorter returns every name a
\* node's formula or rule uses is a node placed earlier; and compute() on it
\* never fails, in particular not with a cycle or undefined-variable error.
C21_ManualCaseWellFormed ==
    case \in StandardCases =>
        /\ WellFormed(case)
        /\ ~SortFailed
        /\ SortReturned =>
              \A i \in 1..Len(ordered_nodes) :
                  NamesOf(DeclaredFormula(case, NodeOf(case, ordered_nodes[i])))
                      \subseteq {ordered_nodes[j] : j \in 1..(i - 1)}
        /\ pc # "failed"
        /\ outcome.kind # "raised"

\* compute() has returned for the case built from no facts at all
C21_Witness ==
    /\ case = ManualCase(FactsOf(Absent, Absent, Absent, Absent))
    /\ pc = "done" /\ outcome.kind = "returned"
    /\ outcome.map["taxable_income"] = IntV(-10000)

\* compute() has returned for a case built from all four facts
C21_WitnessAllFacts ==
    /\ case = ManualCase(FactsOf(IntV(100000), IntV(15000), IntV(8000), IntV(6000)))
    /\ pc = "done" /\ outcome.kind = "returned"


-----------------------------------------------------------------------------
(* compute() on a fresh LogicTree as a function of the case, for the       *)
(* callers in evaluator/suite.py                                           *)

RECURSIVE Visit(_, _, _)
RECURSIVE VisitAll(_, _, _, _)

\* visit(node_id) with all its recursive calls; st holds the sorter's
\* locals and the exception raised, if any
Visit(c, node_id, st) ==
    IF node_id \in st.temp_visited
    THEN [st EXCEPT !.err = Err("ValueError", "Circular dependency detected involving", node_id)]
    ELSE IF node_id \in st.visited
    THEN st
    ELSE IF node_id \notin NodeIds(c)
    THEN [st EXCEPT !.temp_visited = @ \cup {node_id},
                    !.err = Err("KeyError", "nodes", node_id)]
    ELSE LET after == VisitAll(c, DependsOn(c, node_id), 1,
                               [st EXCEPT !.temp_visited = @ \cup {node_id}])
         IN  IF ~after.err.ok THEN after
             ELSE [after EXCEPT !.temp_visited = @ \ {node_id},
                                !.visited = @ \cup {node_id},
                                !.result = Append(@, node_id)]

\* `for dep in ids: visit(dep)` from position i on, until one raises
VisitAll(c, ids, i, st) ==
    IF i > Len(ids) \/ ~st.err.ok THEN st
    ELSE VisitAll(c, ids, i + 1, Visit(c, ids[i], st))

\* _topological_sort(): the order, or the exception
TopologicalSort(c) ==
    VisitAll(c, [i \in 1..Len(c.nodes) |-> c.nodes[i].node_id], 1,
             [visited |-> {}, temp_visited |-> {}, result |-> <<>>, err |-> Ok(NoneV)])

\* `for node_id in ordered_nodes` from position i on
RECURSIVE EvalAll(_, _, _, _)
EvalAll(c, order, i, cv) ==
    IF i > Len(order) THEN Returned(cv)
    ELSE LET r == ComputeNode(c, cv, NodeOf(c, order[i]))
         IN  IF r.res.ok THEN EvalAll(c, order, i + 1, Put(r.cv, order[i], r.res.val))
             ELSE Raised(r.res)

\* LogicTree(case).compute(): the dict returned or the exception raised
Compute(c) ==
    LET sorted == TopologicalSort(c)
    IN  IF ~sorted.err.ok THEN Raised(sorted.err)
        ELSE EvalAll(c, sorted.result, 1, EmptyMap)

\* The first compute() call on an object ends as Compute says.
ComputeAgrees ==
    (pc \in {"done", "failed"} /\ prev = NoOutcome) => outcome = Compute(case)


-----------------------------------------------------------------------------
(* run_batch (evaluator/suite.py).  The language model is the environment: *)
(* a rendering either raises or yields a response, and a response is kept  *)
(* as the set of scorer checks it passes.  Scores are in tenths.           *)

MaxBatch == 3

\* ScoreWeights, in tenths
ScoreWeights ==
    [c \in {"amount_accuracy", "reasoning_quality", "law_citations", "evidence_format"} |->
        CASE c = "amount_accuracy" -> 4
          [] c = "reasoning_quality" -> 3
          [] c = "law_citations" -> 2
          [] OTHER -> 1]

Checks == DOMAIN ScoreWeights

\* score_case: the checks passed, their weighted sum, and passed = total_score > 0.5
ScoreCase(passing) ==
    LET total_score == SumOver(passing, ScoreWeights)
    IN  [total_score |-> total_score,
         passed |-> total_score > 5,
         check_results |-> [c \in Checks |-> c \in passing]]

\* the rendering raises
RenderError == [raises |-> TRUE, passing |-> {}]

\* the rendering returns a response that passes these checks
Response(passing) == [raises |-> FALSE, passing |-> passing]

Renderings ==
    {RenderError, Response(Checks), Response({"amount_accuracy", "evidence_format"}),
     Response({})}

\* what case_generator() may return: the standard case, a small graph, a
\* graph with a cycle, and a graph with an edge to a node that does not exist
BatchCases ==
    << ManualCase(FactsOf(IntV(80000), IntV(15000), IntV(5000), IntV(7000))),
       GraphCase({<<"b", "a">>, <<"d", "b">>, <<"d", "c">>}),
       GraphCase({<<"b", "c">>, <<"c", "b">>}),
       GraphCase({<<"d", Ghost>>}) >>

\* the entry of individual_scores for a scored response
ScoredResult(g, ground_truth, score_result) ==
    [case_id |-> g, score |-> score_result.total_score, passed |-> score_result.passed,
     check_results |-> score_result.check_results, error |-> FALSE,
     ground_truth |-> ground_truth]

\* the entry of individual_scores the except clause builds
ErrorResult(g, ground_truth) ==
    [case_id |-> g, score |-> 0, passed |-> FALSE,
     check_results |-> [c \in {} |-> TRUE], error |-> TRUE,
     ground_truth |-> ground_truth]

\* the reasons of the checks a response failed, in the order of check_results
FailedReasons(score_result) ==
    SelectSeq(<<"amount_accuracy", "reasoning_quality", "law_citations", "evidence_format">>,
              LAMBDA c : ~score_result.check_results[c])

\* Counter(seq).most_common(3) as a dict: the three reasons with the highest
\* counts, earlier first occurrence winning a tie
MostCommon3(seq) ==
    LET reasons == {seq[i] : i \in 1..Len(seq)}
        count(r) == Cardinality({i \in 1..Len(seq) : seq[i] = r})
        first(r) == CHOOSE i \in 1..Len(seq) : seq[i] = r /\ \A j \in 1..(i - 1) : seq[j] # r
        before(r, q) == count(r) > count(q) \/ (count(r) = count(q) /\ first(r) < first(q))
        top == {r \in reasons : Cardinality({q \in reasons : before(q, r)}) < 3}
    IN  [r \in top |-> count(r)]

\* statistics.mean(scores), 0.0 for no scores
Mean(scores) ==
    IF Len(scores) = 0 THEN FloatV(0, 1)
    ELSE FloatV(SumOver(1..Len(scores), scores), 10 * Len(scores))

\* the square of statistics.stdev(scores) (the sample variance), 0.0 for
\* fewer than two scores; the square root is not taken in the model
StdevSquared(scores) ==
    LET k == Len(scores)
        sum == SumOver(1..k, scores)
        squares == SumOver(1..k, [i \in 1..k |-> scores[i] * scores[i]])
    IN  IF k <= 1 THEN FloatV(0, 1)
        ELSE FloatV(k * squares - sum * sum, 100 * k * (k - 1))

\* the BatchResults run_batch returns
BatchResults(n, results, failed_checks) ==
    LET scores == [i \in 1..Len(results) |-> results[i].score]
        passed_cases == Cardinality({i \in 1..Len(results) : results[i].passed})
    IN  [kind |-> "returned",
         total_cases |-> n,
         average_score |-> Mean(scores),
         std_dev_squared |-> StdevSquared(scores),
         passed_cases |-> passed_cases,
         failed_cases |-> n - passed_cases,
         individual_scores |-> results,
         failure_taxonomy |-> MostCommon3(failed_checks)]

\* run_batch(n, case_generator, renderer, retriever) is called
InitBatch ==
    /\ case = GraphCase({})
    /\ computed_values = EmptyMap
    /\ pc = "ready"
    /\ visited = {} /\ temp_visited = {} /\ result = <<>> /\ stack = <<>> /\ loop = 0
    /\ steps = 0
    /\ ordered_nodes = <<>> /\ idx = 0
    /\ outcome = NoOutcome /\ prev = NoOutcome
    /\ alias = FALSE
    /\ eval_expression = NoFormula /\ eval_context = EmptyMap /\ eval_result = NotEvaluated
    /\ eval_via = "_safe_eval"
    /\ batch_n \in 0..MaxBatch
    /\ batch_i = 0 /\ batch_pc = "loop"
    /\ batch_cases = <<>> /\ individual_scores = <<>> /\ all_failed_checks = <<>>
    /\ batch_results = [kind |-> "none"]
    /\ ConsistencyIdle

\* one round of `for i in range(n)`: the case is generated and its ground
\* truth computed outside the try statement; rendering and scoring are inside
BatchCase ==
    /\ batch_pc = "loop" /\ batch_i < batch_n
    /\ \E g \in 1..Len(BatchCases), rendering \in Renderings :
          LET ground_truth == Compute(BatchCases[g])
              score_result == ScoreCase(rendering.passing)
          IN  /\ batch_i' = batch_i + 1
              /\ batch_cases' = Append(batch_cases, g)
              /\ IF ground_truth.kind = "raised"
                 THEN /\ batch_pc' = "raised"
                      /\ batch_results' = [kind |-> "raised", err |-> ground_truth.err]
                      /\ UNCHANGED <<individual_scores, all_failed_checks>>
                 ELSE IF rendering.raises
                 THEN /\ individual_scores' =
                             Append(individual_scores, ErrorResult(g, ground_truth.map))
                      /\ all_failed_checks' = Append(all_failed_checks, "Rendering error")
                      /\ UNCHANGED <<batch_pc, batch_results>>
                 ELSE /\ individual_scores' =
                             Append(individual_scores,
                                    ScoredResult(g, ground_truth.map, score_result))
                      /\ all_failed_checks' = all_failed_checks \o FailedReasons(score_result)
                      /\ UNCHANGED <<batch_pc, batch_results>>
    /\ UNCHANGED <<treeVars, evalVars, batch_n, scVars>>

\* after the loop: the statistics and `return BatchResults(...)`
BatchReturn ==
    /\ batch_pc = "loop" /\ batch_i = batch_n
    /\ batch_pc' = "returned"
    /\ batch_results' = BatchResults(batch_n, individual_scores, all_failed_checks)
    /\ UNCHANGED <<treeVars, evalVars, batch_n, batch_i, batch_cases, individual_scores,
                   all_failed_checks, scVars>>

NextBatch == BatchCase \/ BatchReturn

BatchSpec == InitBatch /\ [][NextBatch]_vars

\* the generated cases whose ground-truth computation raises
GroundTruthFailures ==
    {i \in 1..Len(batch_cases) : Compute(BatchCases[batch_cases[i]]).kind = "raised"}

\* run_batch has ended, one way or the other
BatchEnded == batch_pc \in {"returned", "raised"}

\* C22: a case whose ground-truth computation raises is fatal for that case
\* only: run_batch still returns its results, the statistics leave the case
\* out, and the case is recorded as an error, never as an unannotated zero.
C22_GroundTruthFailureIsolated ==
    BatchEnded =>
        /\ batch_pc = "returned"
        /\ Len(batch_cases) = batch_n
        /\ \A i \in GroundTruthFailures :
              \A j \in 1..Len(batch_results.individual_scores) :
                  batch_results.individual_scores[j].case_id = batch_cases[i]
                      => batch_results.individual_scores[j].error
        /\ batch_results.average_score =
              Mean([j \in 1..Len(batch_results.individual_scores) |->
                        batch_results.individual_scores[j].score])

\* What the code does: the exception of the ground-truth computation leaves
\* run_batch, and no results are produced for any case of the batch.
C22_GroundTruthFailureAborts ==
    GroundTruthFailures # {} =>
        /\ batch_pc = "raised"
        /\ batch_results.kind = "raised"
        /\ GroundTruthFailures = {Len(batch_cases)}
        /\ batch_results.err = Compute(BatchCases[batch_cases[Len(batch_cases)]]).err

\* two cases were scored and the third one's ground truth raised
C22_Witness ==
    /\ batch_pc = "raised" /\ batch_n = 3 /\ Len(individual_scores) = 2
    /\ batch_cases[3] = 3


-----------------------------------------------------------------------------
\* the cases manual_case builds
ManualCases == StandardCases \cup ChildrenCases

\* salary 0, donation 1000, retirement contribution 2000, with or without a
\* number of children
ZeroIncome(c) ==
    /\ FactOf(c, "salary") = IntV(0) /\ FactOf(c, "freelance") = NoneV
    /\ FactOf(c, "donation") = IntV(1000)
    /\ FactOf(c, "retirement_contribution") = IntV(2000)

\* C23: for the standard graph with non-negative facts the taxable_income
\* compute() returns is never negative; with salary 0, donation 1000 and
\* retirement contribution 2000, gross_income is 0 and taxable_income is 0.
C23_TaxableIncomeNotNegative ==
    (case \in ManualCases /\ outcome.kind = "returned") =>
        /\ NumLe(IntV(0), outcome.map["taxable_income"])
        /\ ZeroIncome(case) =>
              /\ NumEq(outcome.map["gross_income"], IntV(0))
              /\ NumEq(outcome.map["taxable_income"], IntV(0))

\* What the code does: taxable_income is gross_income - deduction_choice
\* with nothing to stop it at 0, and deduction_choice is at least the
\* standard deduction of 10000; so a gross income below 10000 gives a
\* negative taxable_income.
C23_TaxableIncomeUnclamped ==
    (case \in ManualCases /\ outcome.kind = "returned") =>
        LET m == outcome.map
        IN  /\ NumEq(m["taxable_income"], NumSub(m["gross_income"], m["deduction_choice"]))
            /\ NumLe(IntV(10000), m["deduction_choice"])
            /\ NumLt(m["gross_income"], IntV(10000)) => NumLt(m["taxable_income"], IntV(0))

\* the zero-income case has returned gross_income 0 and taxable_income -10000
C23_Witness ==
    /\ ZeroIncome(case) /\ outcome.kind = "returned"
    /\ outcome.map["gross_income"] = IntV(0)
    /\ outcome.map["taxable_income"] = IntV(-10000)

\* the number of children the case states
Children(c) == FactOf(c, "children")

\* 5% of the part of agi above 90000, as a fraction
PhaseoutOf(agi) ==
    IF NumLt(IntV(90000), agi)
    THEN [t |-> "float", n |-> agi.n - 90000 * agi.d, d |-> 20 * agi.d, s |-> ""]
    ELSE IntV(0)

\* C24: the child credit is 2000 per child less the phase-out: 0 for no
\* children, 4000 for two children with no phase-out, 5500 for three
\* children with a phase-out of 500.
C24_CreditPerChild ==
    (case \in ChildrenCases /\ outcome.kind = "returned") =>
        LET credit == outcome.map["child_credit"]
            phaseout == PhaseoutOf(outcome.map["AGI"])
        IN  /\ Children(case) = IntV(0) => NumEq(credit, IntV(0))
            /\ (Children(case) = IntV(2) /\ NumEq(phaseout, IntV(0))) =>
                  NumEq(credit, IntV(4000))
            /\ (Children(case) = IntV(3) /\ NumEq(phaseout, IntV(500))) =>
                  NumEq(credit, IntV(5500))

\* What the code does: no node and no rule reads the children fact; the
\* credit is that of one child whatever the number of children is.
C24_CreditIgnoresChildren ==
    (case \in ChildrenCases /\ outcome.kind = "returned") =>
        /\ "children" \notin DOMAIN outcome.map
        /\ NumEq(outcome.map["child_credit"],
                 NumMax(IntV(0), NumSub(IntV(2000), PhaseoutOf(outcome.map["AGI"]))))

\* three children and AGI 100000 (a phase-out of 500) have returned a
\* child_credit of 1500.0
C24_Witness ==
    /\ case = ManualCase(WithChildren(FactsOf(IntV(100000), Absent, IntV(0), IntV(0)), 3))
    /\ outcome.kind = "returned"
    /\ outcome.map["AGI"] = IntV(100000)
    /\ outcome.map["child_credit"] = FloatV(1500, 1)

\* no children have returned a child_credit of 2000
C24_WitnessNoChildren ==
    /\ case = ManualCase(WithChildren(FactsOf(IntV(50000), Absent, IntV(2000), IntV(3000)), 0))
    /\ outcome.kind = "returned"
    /\ outcome.map["child_credit"] = IntV(2000)


-----------------------------------------------------------------------------
\* C25: while compute() evaluates the nodes of a case with an acyclic graph,
\* the nodes before the current position of the returned order are exactly
\* those evaluated so far and each of them has its entry in computed_values;
\* so when a node is about to be evaluated, every node_id in its depends_on
\* list has been evaluated earlier in this call and has an entry.
C25_DependenciesComputedFirst ==
    (~Cyclic(case) /\ pc = "eval") =>
        /\ idx \in 1..(Len(ordered_nodes) + 1)
        /\ Evaluated \subseteq DOMAIN computed_values
        /\ idx <= Len(ordered_nodes) =>
              \A j \in 1..Len(NextNode.depends_on) :
                  /\ NextNode.depends_on[j] \in Evaluated
                  /\ NextNode.depends_on[j] \in DOMAIN computed_values

\* the diamond is about to evaluate d on a fresh object: a, b and c, and
\* nothing else, have their entries
C25_Witness ==
    /\ case = Diamond /\ pc = "eval" /\ idx = 4
    /\ ordered_nodes[idx] = "d"
    /\ DOMAIN computed_values = {"a", "b", "c"}


-----------------------------------------------------------------------------
\* C26: compute() finishes the whole sort before it evaluates any node.  No
\* step of the sort, from the call to its return or failure, changes
\* computed_values; when the sort has failed no node has been evaluated;
\* and a case with a cycle anywhere in its graph never gets to the
\* evaluation loop, so its computed_values never receives an entry.
C26_SortBeforeEvaluation ==
    /\ [](SortFailed => (idx = 0 /\ ordered_nodes = <<>> /\ Evaluated = {}))
    /\ [](Cyclic(case) => (pc # "eval" /\ pc # "done" /\ computed_values = EmptyMap))
    /\ [][(pc = "sort" \/ pc' = "sort") => computed_values' = computed_values]_vars

\* a cycle between c and d, after a and b were sorted, has made the sort
\* fail with nothing evaluated
C26_Witness ==
    /\ case = GraphCase({<<"b", "a">>, <<"c", "d">>, <<"d", "c">>})
    /\ SortFailed /\ IsCycleError(outcome.err)
    /\ computed_values = EmptyMap

\* the sort of that case is under way with a and b already sorted
C26_WitnessSorting ==
    /\ case = GraphCase({<<"b", "a">>, <<"c", "d">>, <<"d", "c">>})
    /\ pc = "sort" /\ visited = {"a", "b"} /\ temp_visited = {"c", "d"}
    /\ computed_values = EmptyMap


-----------------------------------------------------------------------------
\* the depends_on entries of the case that name no node
Dangling(c) == UNION {Succ(c, id) : id \in NodeIds(c)} \ NodeIds(c)

\* C27: a case with a depends_on entry that names no node is accepted by
\* the constructor and by the call, and the sort starts; but compute()
\* never gets to the evaluation loop and never returns a map.  When the
\* call ends it has raised: the lookup error of the missing node_id the
\* sorter followed, or the cycle error of a cycle it met before; without a
\* cycle it is always the lookup error.
C27_DanglingEdgeFails ==
    ~Closed(case) =>
        /\ pc \notin {"eval", "done"}
        /\ outcome.kind # "returned"
        /\ computed_values = EmptyMap
        /\ pc = "failed" =>
              /\ outcome.kind = "raised"
              /\ IsLookupError(outcome.err) \/ IsCycleError(outcome.err)
              /\ IsLookupError(outcome.err) => outcome.err.arg \in Dangling(case)
              /\ ~Cyclic(case) => IsLookupError(outcome.err)

\* d depends on a node that does not exist: the call has raised the lookup
\* error naming it
C27_Witness ==
    /\ case = GraphCase({<<"b", "a">>, <<"d", Ghost>>})
    /\ pc = "failed" /\ outcome = Raised(Err("KeyError", "nodes", Ghost))

\* in that case the sort is under way and has sorted a, b and c
C27_WitnessNotUpFront ==
    /\ case = GraphCase({<<"b", "a">>, <<"d", Ghost>>})
    /\ pc = "sort" /\ visited = {"a", "b", "c"} /\ temp_visited = {"d"}


-----------------------------------------------------------------------------
\* the node m of a method case
MethodNode == NodeOf(case, "m")

\* what m's formula gives where a = 3
MethodFormulaResult == SafeEval(MethodNode.formula, [n \in {"a"} |-> IntV(3)])

\* the call failed while evaluating node id
FailedAt(id) == pc = "failed" /\ idx >= 1 /\ ordered_nodes[idx] = id

\* C28: a derived or output node with both a formula and a rule_id, or with
\* neither, is never rejected.  With both, the node's result is that of the
\* formula (its value, or its exception ending the call) and the rule_id is
\* not even looked up; with neither (no formula or the empty string, and no
\* rule_id) the node's value is None, the node after it reads it as 0, and
\* compute() returns.
C28_MethodRuleNotEnforced ==
    (case \in MethodCases /\ MethodNode.node_type \in {"derived", "output"}) =>
        /\ ~SortFailed
        /\ (HasFormula(MethodNode) /\ HasRule(MethodNode)) =>
              /\ "m" \in Evaluated =>
                    MethodFormulaResult.ok /\ computed_values["m"] = MethodFormulaResult.val
              /\ FailedAt("m") => outcome = Raised(MethodFormulaResult)
              /\ (pc = "failed" /\ MethodFormulaResult.ok) => FailedAt("u")
        /\ (~HasFormula(MethodNode) /\ ~HasRule(MethodNode)) =>
              /\ pc # "failed"
              /\ "m" \in Evaluated => computed_values["m"] = NoneV
              /\ pc = "done" => (outcome.kind = "returned" /\ outcome.map["m"] = NoneV
                                   /\ outcome.map["u"] = IntV(5))

\* an output node with formula a + 1 and a rule_id naming no rule has
\* returned 4
C28_Witness ==
    /\ case = MethodCase("output", BinOp(Name("a"), "Add", Num(1)), StrV("none_such"))
    /\ pc = "done" /\ outcome.kind = "returned"
    /\ outcome.map["m"] = IntV(4) /\ outcome.map["u"] = IntV(9)

\* a derived node with the empty string for a formula and no rule_id has
\* returned None
C28_WitnessNeither ==
    /\ case = MethodCase("derived", EmptyFormula, NoneV)
    /\ pc = "done" /\ outcome.kind = "returned"
    /\ outcome.map["m"] = NoneV /\ outcome.map["u"] = IntV(5)

\* C29: a node of type 'decision' evaluates to None whatever formula or
\* rule_id it carries: a formula that would raise is not evaluated, a
\* rule_id that names no rule is not looked up, the call never fails, and
\* the node after it, which adds 5 to it, gets 5.
C29_DecisionIsNone ==
    (case \in MethodCases /\ MethodNode.node_type = "decision") =>
        /\ pc # "failed" /\ outcome.kind # "raised"
        /\ "m" \in Evaluated => computed_values["m"] = NoneV
        /\ "u" \in Evaluated => computed_values["u"] = IntV(5)
        /\ pc = "done" => (outcome.kind = "returned" /\ outcome.map["m"] = NoneV
                             /\ outcome.map["u"] = IntV(5))

\* a decision node with formula 1 / 0 and rule_id 'six' has returned None
C29_Witness ==
    /\ case = MethodCase("decision", BinOp(Num(1), "Div", Num(0)), StrV("six"))
    /\ pc = "done" /\ outcome.kind = "returned"
    /\ outcome.map["m"] = NoneV /\ outcome.map["u"] = IntV(5)

\* a decision node with formula a + 1 has returned None
C29_WitnessFormula ==
    /\ case = MethodCase("decision", BinOp(Name("a"), "Add", Num(1)), NoneV)
    /\ pc = "done" /\ outcome.kind = "returned"
    /\ outcome.map["m"] = NoneV /\ outcome.map["u"] = IntV(5)


-----------------------------------------------------------------------------
(* self_consistency (evaluator/suite.py).  Temperatures are in tenths; the *)
(* language model is the environment, as for run_batch, and a response     *)
(* also carries the amount of its final answer, None when it has none.     *)

MaxSamples == 3

\* a response with the checks it passes and its final_answer amount
Sample(passing, amount) == [raises |-> FALSE, passing |-> passing, amount |-> amount]

\* the rendering of a sample raises
SampleError == [raises |-> TRUE, passing |-> {}, amount |-> NoneV]

SampleRenderings ==
    {SampleError, Sample(Checks, IntV(84)), Sample({"reasoning_quality"}, IntV(80)),
     Sample({}, NoneV)}

\* the cases self_consistency is called on: the standard case and a graph
\* with a cycle
ConsistencyCases == {BatchCases[1], BatchCases[3]}

\* the temperatures of the client and of the call, in tenths
ClientTemperatures == {1, 2, 7}

SampleTemperatures == {1}

\* `amount = 0.0 if amount is None`
AmountOf(rendering) == IF IsNone(rendering.amount) THEN FloatV(0, 1) ELSE rendering.amount

\* Counter(rounded_amounts).most_common(1)[0]: the amount with the highest
\* count, the earliest one winning a tie (the amounts here are whole numbers,
\* which round() leaves as they are)
MostCommon(amounts) ==
    LET count(i) == Cardinality({j \in 1..Len(amounts) : NumEq(amounts[j], amounts[i])})
        best == CHOOSE i \in 1..Len(amounts) :
                    /\ \A j \in 1..Len(amounts) : count(j) <= count(i)
                    /\ \A j \in 1..(i - 1) : count(j) < count(i)
    IN  [amount |-> IntV(amounts[best].n), count |-> count(best)]

\* the SelfConsistencyResults self_consistency returns
SelfConsistencyResults(k, amounts, scores) ==
    LET valid_amounts == SelectSeq(amounts, LAMBDA a : ~IsNone(a))
        numbers == [i \in 1..Len(valid_amounts) |-> valid_amounts[i].n]
    IN  [kind |-> "returned",
         num_samples |-> k,
         agreement_percentage |->
             IF Len(valid_amounts) = 0 THEN FloatV(0, 1)
             ELSE FloatV(100 * MostCommon(valid_amounts).count, Len(valid_amounts)),
         majority_amount |->
             IF Len(valid_amounts) = 0 THEN NoneV ELSE MostCommon(valid_amounts).amount,
         std_dev_squared |->
             IF Len(valid_amounts) = 0 THEN FloatV(0, 1)
             ELSE LET n == Len(numbers)
                      sum == SumOver(1..n, numbers)
                      squares == SumOver(1..n, [i \in 1..n |-> numbers[i] * numbers[i]])
                  IN  IF n <= 1 THEN FloatV(0, 1)
                      ELSE FloatV(n * squares - sum * sum, n * (n - 1)),
         individual_amounts |-> amounts,
         individual_scores |-> scores]

\* self_consistency(case, renderer, retriever, k, temperature) is called
InitConsistency ==
    /\ case \in ConsistencyCases
    /\ computed_values = EmptyMap
    /\ pc = "ready"
    /\ visited = {} /\ temp_visited = {} /\ result = <<>> /\ stack = <<>> /\ loop = 0
    /\ steps = 0
    /\ ordered_nodes = <<>> /\ idx = 0
    /\ outcome = NoOutcome /\ prev = NoOutcome
    /\ alias = FALSE
    /\ eval_expression = NoFormula /\ eval_context = EmptyMap /\ eval_result = NotEvaluated
    /\ eval_via = "_safe_eval"
    /\ BatchIdle
    /\ sc_k \in 0..MaxSamples
    /\ sc_temperature \in SampleTemperatures
    /\ llm_temperature \in ClientTemperatures
    /\ temperature_before = llm_temperature
    /\ original_temp = 0
    /\ sc_i = 0 /\ sc_pc = "called"
    /\ individual_amounts = <<>> /\ sc_scores = <<>>
    /\ sc_results = [kind |-> "none"]

\* `ground_truth = logic_tree.compute()`, before the loop and outside any try
GroundTruth ==
    /\ sc_pc = "called"
    /\ LET ground_truth == Compute(case)
       IN  IF ground_truth.kind = "raised"
           THEN /\ sc_pc' = "raised"
                /\ sc_results' = [kind |-> "raised", err |-> ground_truth.err]
           ELSE /\ sc_pc' = "loop"
                /\ UNCHANGED sc_results
    /\ UNCHANGED <<treeVars, evalVars, batchVars, sc_k, sc_temperature, sc_i,
                   llm_temperature, original_temp, temperature_before,
                   individual_amounts, sc_scores>>

\* one round of `for i in range(k)`: the temperature is saved and lowered,
\* the sample rendered, and the saved temperature put back only when the
\* rendering returned
DrawSample ==
    /\ sc_pc = "loop" /\ sc_i < sc_k
    /\ \E rendering \in SampleRenderings :
          /\ original_temp' = llm_temperature
          /\ IF rendering.raises
             THEN /\ llm_temperature' = sc_temperature
                  /\ individual_amounts' = Append(individual_amounts, NoneV)
                  /\ sc_scores' = Append(sc_scores, 0)
             ELSE /\ llm_temperature' = llm_temperature
                  /\ individual_amounts' = Append(individual_amounts, AmountOf(rendering))
                  /\ sc_scores' = Append(sc_scores, ScoreCase(rendering.passing).total_score)
    /\ sc_i' = sc_i + 1
    /\ UNCHANGED <<treeVars, evalVars, batchVars, sc_k, sc_temperature, sc_pc,
                   temperature_before, sc_results>>

\* after the loop: the consistency metrics and the return
ConsistencyReturn ==
    /\ sc_pc = "loop" /\ sc_i = sc_k
    /\ sc_pc' = "returned"
    /\ sc_results' = SelfConsistencyResults(sc_k, individual_amounts, sc_scores)
    /\ UNCHANGED <<treeVars, evalVars, batchVars, sc_k, sc_temperature, sc_i,
                   llm_temperature, original_temp, temperature_before,
                   individual_amounts, sc_scores>>

NextConsistency == GroundTruth \/ DrawSample \/ ConsistencyReturn

ConsistencySpec == InitConsistency /\ [][NextConsistency]_vars

\* C30: when self_consistency returns, the client's temperature is what it
\* was before the call, whatever k is and whichever renderings raised.
C30_TemperatureRestored ==
    sc_pc = "returned" => llm_temperature = temperature_before

\* the samples whose rendering raised
FailedSamples == {i \in 1..Len(individual_amounts) : IsNone(individual_amounts[i])}

\* What the code does: the temperature is put back only on the path where
\* the rendering returned; once a rendering has raised, the client keeps
\* the call's temperature, in the later rounds (which save that value as
\* the one to restore) and after the return.
C30_TemperatureKept ==
    /\ sc_pc \in {"loop", "returned"} =>
          llm_temperature = IF FailedSamples = {} THEN temperature_before
                            ELSE sc_temperature
    /\ sc_pc = "raised" => llm_temperature = temperature_before

\* three samples, the second of which raised, have left the temperature at
\* 0.1 instead of 0.7
C30_Witness ==
    /\ sc_pc = "returned" /\ sc_k = 3 /\ FailedSamples = {2}
    /\ temperature_before = 7 /\ llm_temperature = 1

=============================================================================
